---- MODULE Spec2Model ----
(***************************************************************************)
(* erlc.js: the per-route pacing engine (SmoothRateLimiter), the registry  *)
(* of engines (RateLimiterManager) and the request orchestrator            *)
(* (HttpClient.request / withRetries) with its ETag cache.                 *)
(*                                                                         *)
(* Time.  Every instant and duration is an integer number of 1/Res         *)
(* milliseconds, so that Math.floor and Math.ceil are real operations.     *)
(* Date.now() is a whole number of milliseconds, i.e. a multiple of Res.   *)
(* A numeric header value is held as the number it denotes; for the two    *)
(* headers that carry seconds (x-ratelimit-reset, retry-after) that number *)
(* is counted in 1/(1000 * Res) s, so `seconds * 1000` (milliseconds) is   *)
(* the same integer.                                                       *)
(***************************************************************************)
EXTENDS Integers, Sequences, FiniteSets, TLC

\* ------------------------------------------------------------------ bounds
Res == 2
MaxTicks == 2
MaxTasks == 3
MaxSeconds == 2
retriesOption == 1
MaxRouteTicks == 2
MaxRetrySeconds == 6
LoadTicks == 2

\* ------------------------------------------------------- program constants
DEFAULT_WINDOW_MS == 60000
MAX_TIMEOUT == 2147483647
requestsPerMinute == 60
maxConcurrencyOption == 4
minIntervalMs == 0
baseConcurrency == 1
SlackTimer == 5
SlackSeconds == 5
AbsoluteSeconds == 100000
BackoffBaseMs == 300
BackoffCapMs == 10000
JitterMs == 200

\* ----------------------------------------------------------------- helpers
Max(a, b) == IF a >= b THEN a ELSE b
Min(a, b) == IF a <= b THEN a ELSE b
Ms(n) == n * Res
\* Math.floor / Math.ceil of a duration, to whole milliseconds
Floor(x) == (x \div Res) * Res
CeilDiv(a, b) == -((-a) \div b)
\* Math.round(a / b) for b > 0: floor(a / b + 1/2)
RoundDiv(a, b) == (2 * a + b) \div (2 * b)

\* Date.now() when the program starts: 1970-01-03T07:33:20Z
StartMs == 200000 * 1000
\* The clock is observed every half second.
TickStep == Ms(1000 \div 2)

\* --------------------------------------------------------- header values
\* A header value as the program reads it with Headers.get: missing (null),
\* the empty string, a text that is no number, or a text denoting number n.
Missing == [kind |-> "missing", n |-> 0]
EmptyText == [kind |-> "empty", n |-> 0]
NonNumeric == [kind |-> "text", n |-> 0]
Num(n) == [kind |-> "num", n |-> n]

undefined == [def |-> FALSE, n |-> 0]
Number(v) == IF v.kind = "text" THEN undefined ELSE [def |-> TRUE, n |-> v.n]

num(v) ==
  IF v.kind = "missing" THEN undefined
  ELSE LET n == Number(v) IN IF n.def THEN n ELSE undefined

parseRateHeaders(h) ==
  [remaining |-> num(h.remaining),
   resetSeconds |-> num(h.reset),
   retryAfterSeconds |-> num(h.retryAfter)]

\* A value passed where the program expects a number of milliseconds: a
\* finite number n (in clock units), NaN, an infinity, or no number at all.
Finite(n) == [type |-> "number", finite |-> TRUE, n |-> n]
NaN == [type |-> "number", finite |-> FALSE, n |-> 0]
Infinity == [type |-> "number", finite |-> FALSE, n |-> 1]
NotANumber == [type |-> "undefined", finite |-> FALSE, n |-> 0]

\* clampDelay without Math.floor (mutant).
clampDelayUnfloored(ms) ==
  IF ms.type # "number" \/ ~ms.finite \/ ms.n <= 0 THEN 0
  ELSE IF ms.n \div Res >= MAX_TIMEOUT THEN Ms(MAX_TIMEOUT)
  ELSE Max(0, ms.n)

clampDelay(ms) ==
  IF ms.type # "number" \/ ~ms.finite \/ ms.n <= 0 THEN 0
  ELSE IF ms.n \div Res >= MAX_TIMEOUT THEN Ms(MAX_TIMEOUT)
  ELSE Max(0, Floor(ms.n))

\* ------------------------------------------------ SmoothRateLimiter (engine)
defaultRpm == Max(1, requestsPerMinute)
maxConcurrency == Max(1, maxConcurrencyOption)
minInterval == Max(0, Ms(minIntervalMs))

defaultInterval ==
  Max(minInterval, Ms(CeilDiv(Ms(DEFAULT_WINDOW_MS), Res * defaultRpm)))

\* The state of one engine after its constructor.  windowResetAt = 0 is the
\* program's `undefined`: every test of it is a truthiness test.
NewLimiter ==
  [queue |-> <<>>,
   running |-> 0,
   timer |-> FALSE,
   timerDueTime |-> 0,
   nextAvailableTime |-> 0,
   currentInterval |-> defaultInterval,
   currentConcurrency |-> baseConcurrency,
   windowResetAt |-> 0,
   windowDuration |-> Ms(DEFAULT_WINDOW_MS)]

clearTimer(e) ==
  IF e.timer THEN [e EXCEPT !.timer = FALSE, !.timerDueTime = 0] ELSE e

\* A timer that is never armed (mutant).
scheduleTimerNever(e, ms, t) == e

scheduleTimer(e, ms, t) ==
  LET delay == clampDelay(Finite(ms))
      delayOrZero == IF delay = 0 THEN 0
                     ELSE IF delay \div Res >= MAX_TIMEOUT THEN Ms(MAX_TIMEOUT)
                     ELSE delay
      dueTime == t + delayOrZero
  IN IF e.timer /\ dueTime >= e.timerDueTime - Ms(SlackTimer) THEN e
     ELSE [e EXCEPT !.timer = TRUE, !.timerDueTime = dueTime]

\* The window never reset (mutant).
maybeResetNever(e, t) == e

maybeReset(e, t) ==
  IF e.windowResetAt # 0 /\ t >= e.windowResetAt
  THEN [e EXCEPT !.windowResetAt = 0,
                 !.windowDuration = Ms(DEFAULT_WINDOW_MS),
                 !.currentInterval = defaultInterval,
                 !.currentConcurrency = baseConcurrency,
                 !.nextAvailableTime = Min(e.nextAvailableTime, t)]
  ELSE e

\* The interval growing with the tokens (mutant).
calculateIntervalTimesTokens(tokens, timeToReset) ==
  LET duration == Max(minInterval, timeToReset)
  IN Max(minInterval, Ms(CeilDiv(duration * Max(1, tokens), Res)))

\* Math.floor in place of Math.ceil (mutant).
calculateIntervalFloor(tokens, timeToReset) ==
  LET duration == Max(minInterval, timeToReset)
  IN Max(minInterval, Ms(duration \div (Res * Max(1, tokens))))

\* The interval left at its minimum (mutant).
calculateIntervalMin(tokens, timeToReset) == minInterval

calculateInterval(tokens, timeToReset) ==
  LET duration == Max(minInterval, timeToReset)
  IN Max(minInterval, Ms(CeilDiv(duration, Res * Max(1, tokens))))

\* The concurrency without its upper clamp (mutant).
calculateConcurrencyUnclamped(tokens, timeToReset) ==
  IF timeToReset <= 0 THEN baseConcurrency
  ELSE Max(baseConcurrency,
           Max(1, RoundDiv(tokens * defaultInterval, timeToReset)))

calculateConcurrency(tokens, timeToReset) ==
  IF timeToReset <= 0 THEN baseConcurrency
  ELSE LET concurrency ==
             Min(maxConcurrency,
                 Max(1, RoundDiv(tokens * defaultInterval, timeToReset)))
       IN Max(baseConcurrency, concurrency)

\* A relative reset counted from the end of the window in force (mutant).
resolveResetFromWindow(e, resetSeconds, t) ==
  LET seconds == Max(0, resetSeconds)
  IN [resetAt |-> Max(t, e.windowResetAt) + seconds,
      durationMs |-> IF seconds # 0 THEN seconds ELSE e.windowDuration]

\* resetSeconds is finite here: num() returns undefined for anything else.
\* Every reset value taken as seconds from now (mutant).
resolveResetAlwaysRelative(e, resetSeconds, t) ==
  LET seconds == Max(0, resetSeconds)
  IN [resetAt |-> t + seconds,
      durationMs |-> IF seconds # 0 THEN seconds ELSE e.windowDuration]

resolveReset(e, resetSeconds, t) ==
  LET seconds == Max(0, resetSeconds)
      currentSeconds == t \div Ms(1000)
  IN IF seconds > Ms(1000) * (currentSeconds + SlackSeconds)
        \/ seconds > Ms(1000) * AbsoluteSeconds
     THEN [resetAt |-> seconds,
           durationMs |-> Max(defaultInterval, seconds - t)]
     ELSE [resetAt |-> t + seconds,
           durationMs |-> IF seconds # 0 THEN seconds ELSE e.windowDuration]

\* admissible without the guard on the clock (mutant).
admissibleAnyTime(e, t) == ~(e.running >= e.currentConcurrency)

\* admissible without the guard on running (mutant).
admissibleAnyRunning(e, t) == ~(t < e.nextAvailableTime)

\* The guards of pump (lines 150 and 155): a task may start.
admissible(e, t) ==
  /\ ~(e.running >= e.currentConcurrency)
  /\ ~(t < e.nextAvailableTime)

\* queue.pop() in place of queue.shift() (mutant).
shiftLast(q) == [task |-> q[Len(q)], rest |-> SubSeq(q, 1, Len(q) - 1)]

\* queue.shift(): the task taken and the queue left.
shift(q) == [task |-> Head(q), rest |-> Tail(q)]

\* One call of pump at time t: the engine after it and the task it started,
\* if any.  The task's fn runs in a microtask of the same turn.
pump(e, t) ==
  IF Len(e.queue) = 0 THEN [lim |-> clearTimer(e), started |-> <<>>]
  ELSE LET r == maybeReset(e, t) IN
    IF ~admissible(r, t)
    THEN [lim |-> scheduleTimer(r, r.nextAvailableTime - t, t), started |-> <<>>]
    ELSE LET s == shift(r.queue)
             startAt == Max(t, r.nextAvailableTime)
         IN [lim |-> [r EXCEPT !.queue = s.rest,
                               !.running = @ + 1,
                               !.nextAvailableTime = startAt + r.currentInterval],
             started |-> <<s.task>>]

\* schedule(fn): queue.push and pump.
schedule(e, task, t) == pump([e EXCEPT !.queue = Append(@, task)], t)

\* updateFromHeaders up to, not including, its closing pump.
applyHeaders(e, h, t) ==
  LET rate == parseRateHeaders(h)
      e1 == maybeReset(e, t)
      rr == resolveReset(e1, rate.resetSeconds.n, t)
      e2 == IF rate.resetSeconds.def /\ rr.resetAt # 0
            THEN scheduleTimer(
                   [e1 EXCEPT !.windowResetAt = rr.resetAt,
                              !.windowDuration =
                                 IF rr.durationMs # 0 THEN rr.durationMs ELSE @],
                   Max(0, rr.resetAt - t), t)
            ELSE e1
      remaining == Max(0, rate.remaining.n)
      tokens == remaining + 1
      timeToReset == IF e2.windowResetAt # 0
                     THEN Max(0, e2.windowResetAt - t)
                     ELSE e2.windowDuration
      ttr == IF timeToReset # 0 THEN timeToReset ELSE e2.windowDuration
  IN IF rate.remaining.def
     THEN [e2 EXCEPT !.currentInterval = calculateInterval(tokens, ttr),
                     !.currentConcurrency = calculateConcurrency(tokens, ttr)]
     ELSE e2

updateFromHeaders(e, h, t) == pump(applyHeaders(e, h, t), t)

\* The penalty replacing the next start time instead of raising it (mutant).
penalizeReplacing(e, waitMs, t) ==
  LET delay == clampDelay(waitMs)
      next == t + delay
  IN IF delay <= 0 THEN e
     ELSE scheduleTimer([e EXCEPT !.nextAvailableTime = next], next - t, t)

penalize(e, waitMs, t) ==
  LET delay == clampDelay(waitMs)
      target == t + delay
      next == Max(e.nextAvailableTime, target)
  IN IF delay <= 0 THEN e
     ELSE scheduleTimer([e EXCEPT !.nextAvailableTime = next], next - t, t)

\* The handlers of pump without running-- (mutant).
completeKeepsRunning(e, t) == pump(e, t)

\* The handlers of pump with running-- done by both of them (mutant).
completeTwice(e, t) == pump([e EXCEPT !.running = @ - 2], t)

\* The then / catch handlers of pump: running--, then pump.
complete(e, t) == pump([e EXCEPT !.running = @ - 1], t)

\* The engine has a deadline ahead: its timer, the next start, the window's end.
Pending(e, t) ==
  \/ e.timer /\ e.timerDueTime > t
  \/ e.nextAvailableTime > t
  \/ e.windowResetAt > t

\* The timer's callback.
timerFired(e, t) == pump([e EXCEPT !.timer = FALSE, !.timerDueTime = 0], t)

\* ------------------------------------------------ RateLimiterManager (registry)
\* A path as the caller gives it: origin "" for a relative path.
Path(origin, pathname, search) ==
  [origin |-> origin, pathname |-> pathname, search |-> search]

\* new URL(path, "https://placeholder.local").pathname
normalizePath(path) == IF path.pathname = "" THEN "/" ELSE path.pathname

\* forPath making a new engine at every call (mutant).
forPathAlwaysNew(map, path) == (normalizePath(path) :> NewLimiter) @@ map

\* The limiters map after forPath(path): an engine is made on first use.
forPath(map, path) ==
  LET key == normalizePath(path)
  IN IF key \in DOMAIN map THEN map ELSE (key :> NewLimiter) @@ map

\* One engine object handed out for every route (mutant).
onEveryRoute(map, key, e) == [k \in DOMAIN map |-> e]

\* The limiters map after a call on the engine forPath returned for key:
\* the caller holds that one SmoothRateLimiter and no other.
onRoute(map, key, e) == [map EXCEPT ![key] = e]

\* ------------------------------------------------ HttpClient (orchestrator)
retries == Max(0, retriesOption)
baseUrl == "https://api.policeroleplay.community"

resolveUrl(path) ==
  IF path.origin # "" THEN path ELSE [path EXCEPT !.origin = baseUrl]

toUpperCase(m) ==
  CASE m = "get" -> "GET" [] m = "post" -> "POST" [] OTHER -> m

\* init.method "undefined" is a call that names no method.
normalizeMethod(method) ==
  toUpperCase(IF method = "undefined" THEN "GET" ELSE method)

\* Cacheable whatever the body (mutant).
isCacheableAnyBody(method, body) == method = "GET"

\* init.body "null" is a call without a body.
isCacheable(method, body) == method = "GET" /\ body = "null"

cacheKey(url, method) == <<method, url>>

\* Every failure status taken for retryable (mutant).
shouldRetryAny(status) == status >= 400

shouldRetry(status) == status = 429 \/ status = 503 \/ status = 500

\* jitter stands for Math.random() * 200
backoff(attempt, jitter) ==
  LET base == Ms(BackoffBaseMs) * (2 ^ attempt)
  IN Min(Ms(BackoffCapMs), base + jitter)

\* A transport response: status, the etag header ("" when it is missing), the
\* three rate headers and the body text.
Resp(status, etag, retryAfter, remaining, reset, body) ==
  [status |-> status, statusText |-> "", etag |-> etag, retryAfter |-> retryAfter,
   remaining |-> remaining, reset |-> reset, body |-> body]

\* A failed response with its reason phrase ("" over HTTP/2).
ErrResp(status, statusText, retryAfter, body) ==
  [Resp(status, "", retryAfter, Missing, Missing, body)
     EXCEPT !.statusText = statusText]

ok(resp) == resp.status >= 200 /\ resp.status <= 299

\* Payloads.  A body text is JSON unless it is "junk"; the schema accepts the
\* objects "{d1}" and "{d2}" and nothing else.
UndefinedPayload == [json |-> "undefined", validated |-> FALSE]
Parsed(text) == [json |-> text, validated |-> FALSE]
JSONparse(text) == [threw |-> text \in {"junk", ""}, value |-> Parsed(text)]

\* parseBody: the payload, or the Error it throws.
parseBody(resp) ==
  IF resp.status = 204 \/ resp.status = 205
  THEN [threw |-> FALSE, value |-> UndefinedPayload]
  ELSE IF resp.body = "" THEN [threw |-> FALSE, value |-> UndefinedPayload]
  ELSE JSONparse(resp.body)

\* schema.parse(payload)
schemaParse(payload) ==
  [threw |-> payload.json \notin {"{d1}", "{d2}"},
   value |-> [payload EXCEPT !.validated = TRUE]]

\* schema ? schema.parse(payload) : payload
validate(schema, payload) ==
  IF schema THEN schemaParse(payload) ELSE [threw |-> FALSE, value |-> payload]

\* Errors: what run() throws.  from is the number of the transport call the
\* error comes from.  message is the readable message `[status:code] text`.
Absent == "undefined"
NoMessage == [status |-> 0, code |-> Absent, text |-> ""]
NoError == [name |-> "none", status |-> 0, retryAfterMs |-> undefined,
            rawBody |-> "", from |-> 0, message |-> NoMessage,
            code |-> Absent, commandId |-> Absent, details |-> <<"raw", "">>]
Thrown(name, from) == [NoError EXCEPT !.name = name, !.from = from]

\* response.text().catch(() => ""): a body that cannot be read reads as "".
Unreadable == "<unreadable>"
bodyText(resp) == IF resp.body = Unreadable THEN "" ELSE resp.body

\* parsed is null: JSON.parse threw, or the body is the JSON text null.
parsedIsNull(text) == JSONparse(text).threw \/ text = "null"

\* An object whose toString is not a function: converting it to a string
\* throws a TypeError.
Unprintable == "<object without toString>"

\* parsed?.[name] for the bodies of failed responses.
field(text, name) ==
  IF parsedIsNull(text) THEN Absent
  ELSE IF text = "{code,message,commandId}"
  THEN (IF name = "code" THEN "c1" ELSE IF name = "message" THEN "m1" ELSE "id1")
  ELSE IF text = "{message:{toString:1}}" /\ name = "message" THEN Unprintable
  ELSE Absent

\* The message with the raw body text when the body does not parse (mutant).
errorMessageRaw(resp) ==
  LET m == field(bodyText(resp), "message")
  IN IF m # Absent THEN m
     ELSE IF JSONparse(bodyText(resp)).threw THEN bodyText(resp)
     ELSE IF resp.statusText # "" THEN resp.statusText
     ELSE "Request failed"

\* parsed?.message || response.statusText || "Request failed"
errorMessage(resp) ==
  LET m == field(bodyText(resp), "message")
  IN IF m # Absent THEN m
     ELSE IF resp.statusText # "" THEN resp.statusText
     ELSE "Request failed"

\* toHttpError and the constructor of HttpError: the error it gives, or the
\* TypeError the template literal of the constructor throws.
toHttpError(resp, from) ==
  LET text == bodyText(resp)
      retryAfterSeconds == parseRateHeaders(resp).retryAfterSeconds
      code == field(text, "code")
      message == errorMessage(resp)
  IN IF code = Unprintable \/ message = Unprintable
     THEN Thrown("TypeError", from)
     ELSE [name |-> "HttpError",
           status |-> resp.status,
           retryAfterMs |-> IF retryAfterSeconds.def
                            THEN [def |-> TRUE, n |-> retryAfterSeconds.n]
                            ELSE undefined,
           rawBody |-> text,
           from |-> from,
           message |-> [status |-> resp.status, code |-> code, text |-> message],
           code |-> code,
           commandId |-> field(text, "commandId"),
           details |-> <<IF parsedIsNull(text) THEN "raw" ELSE "parsed", text>>]

\* ================================================================ state
VARIABLES
  now,       \* Date.now(), in 1/Res ms
  lim,       \* a SmoothRateLimiter used on its own
  tasks,     \* the tasks handed to lim.schedule, by number
  enqueued,  \* history: the tasks in the order schedule queued them
  started,   \* history: the tasks in the order pump started them
  limiters,  \* RateLimiterManager.limiters: route key -> engine
  etagCache, \* HttpClient.etagCache: cache key -> entry
  reqs,      \* the calls of HttpClient.request, by number
  routed,    \* history: the path each task handed to the registry came with
  lastStart, \* history: the last admission of lim, kept where spacing is checked
  penalized, \* history: the penalties of lim, kept where penalties are checked
  budget     \* history: the last header update of lim and the starts since

engineVars == <<lim, tasks, enqueued, started>>
httpVars ==
  <<limiters, etagCache, reqs, routed, lastStart, penalized, budget>>
vars ==
  <<now, lim, tasks, enqueued, started, limiters, etagCache, reqs, routed,
    lastStart, penalized, budget>>

TaskIds == 1 .. MaxTasks
\* Two calls of request, which may overlap.
ReqIds == {1, 2}

\* A task and the promise schedule returned for it.
NewTask == [st |-> "new", calls |-> 0, fnResult |-> "none",
            settledAs |-> "none", settles |-> 0]

\* ------------------------------------------------------- requests (state)
NoResp == Resp(0, "", Missing, Missing, Missing, "")
NoInit == [path |-> Path("", "", ""), method |-> "undefined", body |-> "null",
           schema |-> FALSE]

\* One call of request(path, init, schema).  st is where the call stands:
\* idle (not made yet), queued (in the engine's queue), fetching (fetchImpl in
\* flight), errbody / okbody (response.text() in flight in toHttpError /
\* parseBody), sleeping (sleep(wait) in withRetries), returned, failed.
\* The fields from fromCache on are history.
NewRequest ==
  [st |-> "idle", init |-> NoInit, ifNoneMatch |-> "", attempt |-> 0,
   resp |-> NoResp, lastErr |-> NoError, wakeAt |-> 0,
   result |-> UndefinedPayload,
   cachedAtCall |-> "", fromCache |-> FALSE, fetches |-> 0, responses |-> 0,
   hinted |-> FALSE, hintAt |-> 0, hintMs |-> 0,
   parses |-> 0, validations |-> 0, cacheWrites |-> 0, settles |-> 0,
   allRetryable |-> TRUE]

urlOf(q) == resolveUrl(q.init.path)
methodOf(q) == normalizeMethod(q.init.method)
cacheableOf(q) == isCacheable(methodOf(q), q.init.body)
cacheKeyOf(q) == cacheKey(urlOf(q), methodOf(q))
routeOf(q) == normalizePath(q.init.path)

\* The calls the callers make, and the responses the server gives.
P1 == Path("", "/v1/server", "")
RequestInits ==
  { [path |-> P1, method |-> "undefined", body |-> "null", schema |-> TRUE],
    [path |-> P1, method |-> "get", body |-> "{}", schema |-> FALSE],
    [path |-> P1, method |-> "post", body |-> "null", schema |-> FALSE] }

ResponseSet ==
  { Resp(200, "e1", Missing, Missing, Missing, "{d1}"),
    Resp(200, "e1", Missing, Missing, Missing, "{d2}"),
    Resp(200, "e2", Missing, Num(3), Num(Ms(1000)), "[odd]"),
    Resp(200, "e2", Missing, Missing, Missing, "junk"),
    Resp(204, "", Missing, Missing, Missing, ""),
    Resp(304, "e1", Missing, Missing, Missing, ""),
    Resp(404, "", Missing, Missing, Missing, "junk"),
    Resp(429, "", Num(Ms(2000) + 1), Num(0), Num(Ms(1000)), "{d1}"),
    Resp(503, "", EmptyText, Missing, Missing, ""),
    Resp(503, "", Missing, Missing, Missing, "") }

JitterSet == { 0, Ms(JitterMs) - 1 }

\* The tasks pump started are calls of run: fetchImpl is called.
startFetch(rs, ids, t) ==
  [r \in DOMAIN rs |->
     IF \E i \in 1 .. Len(ids) : ids[i] = r
     THEN [rs[r] EXCEPT !.st = "fetching", !.fetches = @ + 1,
                        !.hinted = FALSE, !.hintAt = 0, !.hintMs = 0]
     ELSE rs[r]]

\* withRetries swallowing lastErr and returning undefined (mutant).
throwLastSwallowed(e, q) ==
  [lim |-> e,
   req |-> [q EXCEPT !.st = "returned", !.result = UndefinedPayload,
                     !.settles = @ + 1],
   started |-> <<>>]

\* withRetries throws lastErr to the caller.
throwLast(e, q) ==
  [lim |-> e, req |-> [q EXCEPT !.st = "failed", !.settles = @ + 1],
   started |-> <<>>]

\* The while loop with attempt < retries (mutant).
loopOffByOne(e, q, r, t) ==
  IF q.attempt < retries
  THEN LET p == schedule(e, r, t)
       IN [lim |-> p.lim, req |-> [q EXCEPT !.st = "queued"],
           started |-> p.started]
  ELSE [lim |-> e, req |-> [q EXCEPT !.st = "failed", !.settles = @ + 1],
        started |-> <<>>]

\* The head of the while loop of withRetries: call fn again, i.e.
\* limiter.schedule(run), while attempt <= retries; throw lastErr after it.
loop(e, q, r, t) ==
  IF q.attempt <= retries
  THEN LET p == schedule(e, r, t)
       IN [lim |-> p.lim, req |-> [q EXCEPT !.st = "queued"],
           started |-> p.started]
  ELSE throwLast(e, q)

\* The wait of a retry that ignores the retry hint (mutant).
retryWaitBackoffOnly(err, attempt, jitter) == backoff(attempt, jitter)

\* The wait of a retry (lines 195-198): the retry hint, else the backoff.
retryWait(err, attempt, jitter) ==
  IF err.retryAfterMs.def THEN err.retryAfterMs.n ELSE backoff(attempt, jitter)

\* The catch block of withRetries for the error err of call r.
\* The catch block raising at once after the last attempt (mutant).
catchNoFinalWait(e, q, r, err, jitter, t) ==
  LET q1 == [q EXCEPT !.lastErr = err]
  IN IF err.name # "HttpError" THEN throwLast(e, q1)
     ELSE IF ~shouldRetry(err.status) THEN throwLast(e, q1)
     ELSE IF q.attempt >= retries THEN throwLast(e, q1)
     ELSE LET isRetryAfter == err.retryAfterMs.def
              wait == retryWait(err, q.attempt, jitter)
              e1 == IF wait > 0 /\ ~isRetryAfter THEN penalize(e, Finite(wait), t)
                    ELSE e
              delay == clampDelay(Finite(wait))
          IN IF wait > 0 /\ delay # 0
             THEN [lim |-> e1,
                   req |-> [q1 EXCEPT !.st = "sleeping", !.wakeAt = t + delay],
                   started |-> <<>>]
             ELSE LET p == schedule(e1, r, t)
                  IN [lim |-> p.lim,
                      req |-> [q1 EXCEPT !.attempt = @ + 1, !.st = "queued"],
                      started |-> p.started]

catch(e, q, r, err, jitter, t) ==
  LET q1 == [q EXCEPT !.lastErr = err]
  IN IF err.name # "HttpError" THEN throwLast(e, q1)
     ELSE IF ~shouldRetry(err.status) THEN throwLast(e, q1)
     ELSE LET isRetryAfter == err.retryAfterMs.def
              wait == retryWait(err, q.attempt, jitter)
              e1 == IF wait > 0 /\ ~isRetryAfter THEN penalize(e, Finite(wait), t)
                    ELSE e
              delay == clampDelay(Finite(wait))
          IN IF wait > 0 /\ delay # 0
             THEN [lim |-> e1,
                   req |-> [q1 EXCEPT !.st = "sleeping", !.wakeAt = t + delay],
                   started |-> <<>>]
             ELSE loop(e1, [q1 EXCEPT !.attempt = @ + 1], r, t)

\* run throws err: the catch handler of pump (running--, reject, pump), then
\* the catch block of withRetries.
\* run throwing without the catch handler of pump: the slot is kept (mutant).
runThrowsKeepsSlot(e, q, r, err, jitter, t) ==
  LET w == catch(e, q, r, err, jitter, t)
  IN [lim |-> w.lim, req |-> w.req, started |-> w.started]

runThrows(e, q, r, err, jitter, t) ==
  LET c == complete(e, t)
      w == catch(c.lim, q, r, err, jitter, t)
  IN [lim |-> w.lim, req |-> w.req, started |-> c.started \o w.started]

\* run returns value: the then handler of pump (running--, resolve, pump),
\* then withRetries returns it to the caller.
runReturns(e, q, r, value, t) ==
  LET c == complete(e, t)
  IN [lim |-> c.lim,
      req |-> [q EXCEPT !.st = "returned", !.result = value, !.settles = @ + 1],
      started |-> c.started]

\* The cache keeping the entry it has (mutant).
cacheStoreFirstWins(cache, q, validated) ==
  IF cacheableOf(q) /\ q.resp.etag # ""
  THEN cache @@ (cacheKeyOf(q) :> [etag |-> q.resp.etag, data |-> validated])
  ELSE cache

\* The cache after lines 163-169 for a validated payload.
cacheStore(cache, q, validated) ==
  IF cacheableOf(q) /\ q.resp.etag # ""
  THEN (cacheKeyOf(q) :> [etag |-> q.resp.etag, data |-> validated]) @@ cache
  ELSE cache

\* run storing the cache entry before it parses and validates (mutant).
finishRunStoreFirst(e, cache, q, r, t) ==
  LET payload == parseBody(q.resp)
      q1 == [q EXCEPT !.parses = @ + 1]
      validated == validate(q.init.schema, payload.value)
      q2 == [q1 EXCEPT !.validations = @ + (IF q.init.schema THEN 1 ELSE 0)]
      cache2 == IF cacheableOf(q) /\ q.resp.etag # ""
                THEN (cacheKeyOf(q) :> [etag |-> q.resp.etag,
                                        data |-> validated.value]) @@ cache
                ELSE cache
  IN IF payload.threw
     THEN [out |-> runThrows(e, q1, r, Thrown("Error", q.fetches), 0, t),
           cache |-> cache2]
     ELSE IF validated.threw
     THEN [out |-> runThrows(e, q2, r, Thrown("ZodError", q.fetches), 0, t),
           cache |-> cache2]
     ELSE [out |-> runReturns(e, q2, r, validated.value, t), cache |-> cache2]

\* run from parseBody on (lines 160-171), the body text being at hand.
finishRun(e, cache, q, r, t) ==
  LET payload == parseBody(q.resp)
      q1 == [q EXCEPT !.parses = @ + 1]
      validated == validate(q.init.schema, payload.value)
      q2 == [q1 EXCEPT !.validations = @ + (IF q.init.schema THEN 1 ELSE 0)]
      cache2 == cacheStore(cache, q, validated.value)
      q3 == [q2 EXCEPT !.cacheWrites =
                          @ + (IF cacheableOf(q) /\ q.resp.etag # "" THEN 1 ELSE 0)]
  IN IF payload.threw
     THEN [out |-> runThrows(e, q1, r, Thrown("Error", q.fetches), 0, t),
           cache |-> cache]
     ELSE IF validated.threw
     THEN [out |-> runThrows(e, q2, r, Thrown("ZodError", q.fetches), 0, t),
           cache |-> cache]
     ELSE [out |-> runReturns(e, q3, r, validated.value, t), cache |-> cache2]

\* 304 never served from the cache (mutant).
notModifiedNever(cache, q, resp) == FALSE

\* Lines 128-130: a cacheable call with a cache entry gets 304.
notModified(cache, q, resp) ==
  /\ cacheableOf(q)
  /\ resp.status = 304
  /\ cacheKeyOf(q) \in DOMAIN cache

\* The etag of a successful response never compared (mutant).
etagNeverMatches(cache, q, resp) == FALSE

\* Lines 136-145: a cacheable call gets a successful response with the etag
\* of its cache entry.
etagMatches(cache, q, resp) ==
  /\ cacheableOf(q)
  /\ ok(resp)
  /\ resp.etag # ""
  /\ cacheKeyOf(q) \in DOMAIN cache
  /\ cache[cacheKeyOf(q)].etag = resp.etag

\* The headers fed to the engine for successful responses only (mutant).
feedHeadersIfOk(e, resp, t) ==
  IF ok(resp) THEN updateFromHeaders(e, resp, t)
  ELSE [lim |-> e, started |-> <<>>]

\* Line 126: limiter.updateFromHeaders(response.headers), first thing after
\* fetchImpl resolved.
feedHeaders(e, resp, t) == updateFromHeaders(e, resp, t)

\* The outcome of a step of call r takes effect.
Commit(r, out) ==
  /\ limiters' = [limiters EXCEPT ![routeOf(out.req)] = out.lim]
  /\ reqs' = startFetch([reqs EXCEPT ![r] = out.req], out.started, now)

\* Header sets the engine is fed with.
Hdr(rem, reset, ra) == [remaining |-> rem, reset |-> reset, retryAfter |-> ra]
RateHeaderSet ==
  { Hdr(Num(59), Missing, Missing),
    Hdr(Num(3), Num(Ms(1000)), Missing),
    Hdr(Num(0), Num(Ms(1000)), Missing),
    Hdr(Missing, Num(0), Missing) }

PenaltySet ==
  { Finite(0), Finite(Ms(500) + 1), Finite(1), Finite(-Ms(500)),
    NaN, Infinity, NotANumber }

\* task.resolve / task.reject: a promise settles once, later calls are ignored.
settle(task, how) ==
  IF task.settledAs = "none"
  THEN [task EXCEPT !.settledAs = how, !.settles = @ + 1]
  ELSE task

\* The catch handler resolving instead of rejecting (mutant).
settleAlwaysResolved(task, fnResult) ==
  [settle(task, "resolved") EXCEPT !.st = "settled", !.fnResult = fnResult]

\* The then handler (resolve) or the catch handler (reject) of pump.
settleWith(task, fnResult) ==
  [settle(task, IF fnResult = "ok" THEN "resolved" ELSE "rejected")
     EXCEPT !.st = "settled", !.fnResult = fnResult]

\* The tasks after a pump: the one it started has its fn called.
afterPump(ts, r) ==
  IF r.started = <<>> THEN ts
  ELSE [ts EXCEPT ![r.started[1]] = [@ EXCEPT !.st = "running", !.calls = @ + 1]]

TypeOK ==
  /\ now \in Nat
  /\ lim.running \in Int
  /\ tasks \in [TaskIds -> [st : {"new", "queued", "running", "settled"},
                            calls : Nat, fnResult : {"none", "ok", "error"},
                            settledAs : {"none", "resolved", "rejected"},
                            settles : Nat]]

\* The last admission: when it was and the interval in effect then, whether a
\* window reset was applied since, and how it stands to the admission before
\* it (none for the first one): the time between the two, the interval in
\* effect at the earlier one, whether a window reset was applied in between.
\* No penalty yet.  until is the latest t + waitMs of the calls penalize(waitMs)
\* made at times t; early tells that a task was admitted before it.
NoPenalty == [until |-> 0, early |-> FALSE]

\* No header update yet.  remaining and resetAt are those of the last header
\* update, made with a window reset ahead; starts counts the tasks admitted
\* from that update on and before resetAt.
NoBudget == [open |-> FALSE, remaining |-> 0, resetAt |-> 0, starts |-> 0]

NoStart ==
  [at |-> 0, interval |-> 0, reset |-> FALSE,
   first |-> TRUE, gap |-> 0, prevInterval |-> 0, resetBefore |-> FALSE]

Init ==
  /\ now = Ms(StartMs)
  /\ lim = NewLimiter
  /\ tasks = [k \in TaskIds |-> NewTask]
  /\ enqueued = <<>>
  /\ started = <<>>
  /\ limiters = <<>>
  /\ etagCache = <<>>
  /\ reqs = [r \in ReqIds |-> NewRequest]
  /\ routed = <<>>
  /\ lastStart = NoStart
  /\ penalized = NoPenalty
  /\ budget = NoBudget

\* lim.schedule(fn)
Schedule ==
  /\ Len(enqueued) < MaxTasks
  /\ LET k == Len(enqueued) + 1
         r == schedule(lim, k, now)
     IN /\ lim' = r.lim
        /\ tasks' = afterPump([tasks EXCEPT ![k].st = "queued"], r)
        /\ enqueued' = Append(enqueued, k)
        /\ started' = started \o r.started
  /\ UNCHANGED <<now, httpVars>>

\* The fn of a running task returns (ok) or throws (error).
Complete(k, fnResult) ==
  /\ tasks[k].st = "running"
  /\ LET r == complete(lim, now)
     IN /\ lim' = r.lim
        /\ tasks' = afterPump([tasks EXCEPT ![k] = settleWith(@, fnResult)], r)
        /\ started' = started \o r.started
  /\ UNCHANGED <<now, enqueued, httpVars>>

\* The engine's timer goes off, at or after its due time.
TimerFire ==
  /\ lim.timer
  /\ now >= lim.timerDueTime
  /\ LET r == timerFired(lim, now)
     IN /\ lim' = r.lim
        /\ tasks' = afterPump(tasks, r)
        /\ started' = started \o r.started
  /\ UNCHANGED <<now, enqueued, httpVars>>

UpdateFromHeaders(h) ==
  /\ LET r == updateFromHeaders(lim, h, now)
     IN /\ lim' = r.lim
        /\ tasks' = afterPump(tasks, r)
        /\ started' = started \o r.started
  /\ UNCHANGED <<now, enqueued, httpVars>>

Penalize(w) ==
  /\ lim' = penalize(lim, w, now)
  /\ UNCHANGED <<now, tasks, enqueued, started, httpVars>>

\* The clock advances, as long as the engine has a deadline ahead.
Tick ==
  /\ now < Ms(StartMs) + MaxTicks * TickStep
  /\ Pending(lim, now)
  /\ now' = now + TickStep
  /\ UNCHANGED <<engineVars, httpVars>>

Next ==
  \/ Schedule
  \/ \E k \in TaskIds, res \in {"ok", "error"} : Complete(k, res)
  \/ TimerFire
  \/ \E h \in RateHeaderSet : UpdateFromHeaders(h)
  \/ \E w \in PenaltySet : Penalize(w)
  \/ Tick

Spec == Init /\ [][Next]_vars

\* ------------------------------------------------------ HttpClient actions
\* A caller calls request(path, init, schema): lines 102-116 and 174,
\* withRetries up to its first await.
Request(r, init) ==
  /\ reqs[r].st = "idle"
  /\ \A p \in ReqIds : p < r => reqs[p].st # "idle"
  /\ LET q0 == [NewRequest EXCEPT !.init = init]
         key == cacheKeyOf(q0)
         cached == cacheableOf(q0) /\ key \in DOMAIN etagCache
         q == [q0 EXCEPT !.ifNoneMatch = IF cached THEN etagCache[key].etag ELSE "",
                         !.cachedAtCall = IF <<"GET", urlOf(q0)>> \in DOMAIN etagCache
                                          THEN etagCache[<<"GET", urlOf(q0)>>].etag
                                          ELSE ""]
         map == forPath(limiters, init.path)
         out == loop(map[routeOf(q)], q, r, now)
     IN /\ limiters' = [map EXCEPT ![routeOf(q)] = out.lim]
        /\ reqs' = startFetch([reqs EXCEPT ![r] = out.req], out.started, now)
  /\ UNCHANGED <<now, routed, lastStart, penalized, budget, engineVars, etagCache>>

\* fetchImpl resolves with a response: run from line 126 to its next await.
Response(r, resp) ==
  /\ reqs[r].st = "fetching"
  /\ LET q0 == reqs[r]
         hinted == shouldRetry(resp.status) /\ num(resp.retryAfter).def
         q == [q0 EXCEPT !.resp = resp,
                         !.responses = @ + 1,
                         !.allRetryable = @ /\ shouldRetry(resp.status),
                         !.hinted = hinted,
                         !.hintAt = IF hinted THEN now ELSE 0,
                         !.hintMs = IF hinted THEN num(resp.retryAfter).n ELSE 0]
         u == feedHeaders(limiters[routeOf(q)], resp, now)
         key == cacheKeyOf(q)
     IN IF notModified(etagCache, q, resp)
        THEN /\ Commit(r, LET o == runReturns(u.lim, [q EXCEPT !.fromCache = TRUE],
                                              r, etagCache[key].data, now)
                          IN [o EXCEPT !.started = u.started \o @])
             /\ UNCHANGED etagCache
        ELSE IF etagMatches(etagCache, q, resp)
        THEN /\ Commit(r, LET o == runReturns(u.lim, [q EXCEPT !.fromCache = TRUE],
                                              r, etagCache[key].data, now)
                          IN [o EXCEPT !.started = u.started \o @])
             /\ UNCHANGED etagCache
        ELSE IF ~ok(resp)
        THEN /\ Commit(r, [lim |-> u.lim, req |-> [q EXCEPT !.st = "errbody"],
                           started |-> u.started])
             /\ UNCHANGED etagCache
        ELSE IF resp.status = 204 \/ resp.status = 205
        THEN LET f == finishRun(u.lim, etagCache, q, r, now)
             IN /\ Commit(r, [f.out EXCEPT !.started = u.started \o @])
                /\ etagCache' = f.cache
        ELSE /\ Commit(r, [lim |-> u.lim, req |-> [q EXCEPT !.st = "okbody"],
                           started |-> u.started])
             /\ UNCHANGED etagCache
  /\ UNCHANGED <<now, routed, lastStart, penalized, budget, engineVars>>

\* fetchImpl rejects: a transport failure.
TransportFail(r) ==
  /\ reqs[r].st = "fetching"
  /\ LET q == [reqs[r] EXCEPT !.allRetryable = FALSE]
     IN Commit(r, runThrows(limiters[routeOf(q)], q, r,
                            Thrown("TypeError", q.fetches), 0, now))
  /\ UNCHANGED <<now, routed, lastStart, penalized, budget, engineVars, etagCache>>

\* The body of a failed response is read: toHttpError, penalize on a retry
\* hint, throw (lines 152-157), then the catch block of withRetries.
ErrorBody(r, jitter) ==
  /\ reqs[r].st = "errbody"
  /\ LET q == reqs[r]
         error == toHttpError(q.resp, q.fetches)
         e == limiters[routeOf(q)]
         e1 == IF error.retryAfterMs.def
               THEN penalize(e, Finite(error.retryAfterMs.n), now) ELSE e
     IN Commit(r, runThrows(e1, q, r, error, jitter, now))
  /\ UNCHANGED <<now, routed, lastStart, penalized, budget, engineVars, etagCache>>

\* The body of a successful response is read: lines 160-171.
OkBody(r) ==
  /\ reqs[r].st = "okbody"
  /\ LET q == reqs[r]
         f == finishRun(limiters[routeOf(q)], etagCache, q, r, now)
     IN /\ Commit(r, f.out)
        /\ etagCache' = f.cache
  /\ UNCHANGED <<now, routed, lastStart, penalized, budget, engineVars>>

\* sleep(wait) is over: attempt++ and the loop goes on (lines 207-208).
Wake(r) ==
  /\ reqs[r].st = "sleeping"
  /\ now >= reqs[r].wakeAt
  /\ LET q == [reqs[r] EXCEPT !.attempt = @ + 1, !.wakeAt = 0]
     IN Commit(r, loop(limiters[routeOf(q)], q, r, now))
  /\ UNCHANGED <<now, routed, lastStart, penalized, budget, engineVars, etagCache>>

\* The timer of the engine of a route goes off.
LimiterTimerFire(key) ==
  /\ key \in DOMAIN limiters
  /\ limiters[key].timer
  /\ now >= limiters[key].timerDueTime
  /\ LET p == timerFired(limiters[key], now)
     IN /\ limiters' = [limiters EXCEPT ![key] = p.lim]
        /\ reqs' = startFetch(reqs, p.started, now)
  /\ UNCHANGED <<now, routed, lastStart, penalized, budget, engineVars, etagCache>>

\* The clock advances, as long as an engine or a sleeping call has a deadline
\* ahead.
HttpTick ==
  /\ now < Ms(StartMs) + MaxSeconds * Ms(1000)
  /\ \/ \E key \in DOMAIN limiters : Pending(limiters[key], now)
     \/ \E r \in ReqIds : reqs[r].st = "sleeping" /\ reqs[r].wakeAt > now
  /\ now' = now + Ms(1000)
  /\ UNCHANGED <<engineVars, httpVars>>

NextHttp ==
  \/ \E r \in ReqIds, init \in RequestInits : Request(r, init)
  \/ \E r \in ReqIds, resp \in ResponseSet : Response(r, resp)
  \/ \E r \in ReqIds : TransportFail(r)
  \/ \E r \in ReqIds, jitter \in JitterSet : ErrorBody(r, jitter)
  \/ \E r \in ReqIds : OkBody(r)
  \/ \E r \in ReqIds : Wake(r)
  \/ \E key \in {normalizePath(i.path) : i \in RequestInits} : LimiterTimerFire(key)
  \/ HttpTick

SpecHttp == Init /\ [][NextHttp]_vars

\* ------------------------------------------------ spacing of admissions
\* The engine with its admissions recorded in lastStart.  r is the result of
\* the step's pump, didReset says whether the step applied a window reset.
RecordStart(r, didReset) ==
  lastStart' =
    IF r.started = <<>>
    THEN [lastStart EXCEPT !.reset = @ \/ didReset]
    ELSE [at |-> now, interval |-> r.lim.currentInterval, reset |-> FALSE,
          first |-> lastStart.at = 0,
          gap |-> IF lastStart.at = 0 THEN 0 ELSE now - lastStart.at,
          prevInterval |-> lastStart.interval,
          resetBefore |-> lastStart.reset \/ didReset]

\* maybeReset resets the window of e at time t.
resets(e, t) == maybeReset(e, t) # e

\* Three tasks, fed with headers that raise the rate for a window of 1 s and
\* with headers whose window is over at once.
SpacingTaskIds == {1, 2, 3}
SpacingHeaderSet ==
  { Hdr(Num(3), Num(Ms(1000)), Missing), Hdr(Missing, Num(0), Missing) }

SpacingSchedule ==
  /\ Len(enqueued) + 1 \in SpacingTaskIds
  /\ LET k == Len(enqueued) + 1
         r == schedule(lim, k, now)
     IN /\ lim' = r.lim
        /\ tasks' = afterPump([tasks EXCEPT ![k].st = "queued"], r)
        /\ enqueued' = Append(enqueued, k)
        /\ started' = started \o r.started
        /\ RecordStart(r, resets(lim, now))
  /\ UNCHANGED <<now, limiters, etagCache, reqs, routed, penalized, budget>>

SpacingComplete(k) ==
  /\ tasks[k].st = "running"
  /\ LET r == complete(lim, now)
     IN /\ lim' = r.lim
        /\ tasks' = afterPump([tasks EXCEPT ![k] = settleWith(@, "ok")], r)
        /\ started' = started \o r.started
        /\ RecordStart(r, lim.queue # <<>> /\ resets(lim, now))
  /\ UNCHANGED <<now, enqueued, limiters, etagCache, reqs, routed, penalized, budget>>

SpacingTimerFire ==
  /\ lim.timer
  /\ now >= lim.timerDueTime
  /\ LET r == timerFired(lim, now)
     IN /\ lim' = r.lim
        /\ tasks' = afterPump(tasks, r)
        /\ started' = started \o r.started
        /\ RecordStart(r, lim.queue # <<>> /\ resets(lim, now))
  /\ UNCHANGED <<now, enqueued, limiters, etagCache, reqs, routed, penalized, budget>>

SpacingUpdateFromHeaders(h) ==
  /\ LET r == updateFromHeaders(lim, h, now)
         a == applyHeaders(lim, h, now)
     IN /\ lim' = r.lim
        /\ tasks' = afterPump(tasks, r)
        /\ started' = started \o r.started
        /\ RecordStart(r, resets(lim, now) \/ (lim.queue # <<>> /\ resets(a, now)))
  /\ UNCHANGED <<now, enqueued, limiters, etagCache, reqs, routed, penalized, budget>>

NextSpacing ==
  \/ SpacingSchedule
  \/ \E k \in SpacingTaskIds : SpacingComplete(k)
  \/ SpacingTimerFire
  \/ \E h \in SpacingHeaderSet : SpacingUpdateFromHeaders(h)
  \/ \E w \in PenaltySet : Penalize(w)
  \/ Tick

SpecSpacing == Init /\ [][NextSpacing]_vars

\* ------------------------------------------------ a retry hint of 5 s
\* Cacheable calls (GET, no body, with a schema) answered with 429 and
\* retry-after: 5 (without rate headers, or with remaining 0 and reset 0), or
\* with 200 and the token e1 or e2, over more than 5 s.
RetryInits == { [path |-> P1, method |-> "undefined", body |-> "null", schema |-> TRUE] }
RetryResponses ==
  { Resp(429, "", Num(Ms(5000)), Missing, Missing, "{d1}"),
    Resp(429, "", Num(Ms(5000)), Num(0), Num(0), ""),
    Resp(200, "e1", Missing, Missing, Missing, "{d1}"),
    Resp(200, "e2", Missing, Missing, Missing, "{d2}"),
    Resp(200, "e2", Missing, Missing, Missing, "[odd]") }

RetryTick ==
  /\ now < Ms(StartMs) + MaxRetrySeconds * Ms(1000)
  /\ \/ \E key \in DOMAIN limiters : Pending(limiters[key], now)
     \/ \E r \in ReqIds : reqs[r].st = "sleeping" /\ reqs[r].wakeAt > now
  /\ now' = now + Ms(1000)
  /\ UNCHANGED <<engineVars, httpVars>>

NextRetry ==
  \/ \E r \in ReqIds, init \in RetryInits : Request(r, init)
  \/ \E r \in ReqIds, resp \in RetryResponses : Response(r, resp)
  \/ \E r \in ReqIds : ErrorBody(r, 0)
  \/ \E r \in ReqIds : OkBody(r)
  \/ \E r \in ReqIds : Wake(r)
  \/ \E key \in {normalizePath(i.path) : i \in RetryInits} : LimiterTimerFire(key)
  \/ RetryTick

SpecRetry == Init /\ [][NextRetry]_vars

\* ------------------------------------------------ failed responses
\* Calls made one after the other and answered with failed responses of every
\* kind: body not JSON, empty, unreadable, JSON null, an object with or
\* without code, message and commandId, an object whose message cannot be
\* converted to a string; retry-after missing, empty, not a number, 1 s.
ErrorBodies ==
  { "junk", "", Unreadable, "null", "{d1}", "{code,message,commandId}",
    "{message:{toString:1}}" }
RetryAfterInputs == { Missing, EmptyText, NonNumeric, Num(Ms(1000)) }
ErrorInputs ==
  { ErrResp(st, tx, ra, b) :
      st \in {404, 503}, tx \in {"", "Not Found"},
      ra \in RetryAfterInputs, b \in ErrorBodies }
ErrorResponses ==
  { ErrResp(404, "Not Found", Missing, "junk"),
    ErrResp(404, "", Missing, "junk"),
    ErrResp(404, "Not Found", Missing, "{code,message,commandId}"),
    ErrResp(400, "", Missing, "null"),
    ErrResp(500, "", Missing, "{message:{toString:1}}"),
    ErrResp(503, "", EmptyText, ""),
    ErrResp(503, "", NonNumeric, Unreadable),
    ErrResp(429, "Too Many Requests", Num(Ms(1000)), "{d1}"),
    Resp(200, "e1", Missing, Missing, Missing, "{d1}") }

NextErrors ==
  \/ \E r \in ReqIds, init \in RetryInits :
       /\ \A p \in ReqIds : p < r => reqs[p].st \in {"returned", "failed"}
       /\ Request(r, init)
  \/ \E r \in ReqIds, resp \in ErrorResponses : Response(r, resp)
  \/ \E r \in ReqIds : ErrorBody(r, 0)
  \/ \E r \in ReqIds : OkBody(r)
  \/ \E r \in ReqIds : Wake(r)
  \/ \E key \in {normalizePath(i.path) : i \in RetryInits} : LimiterTimerFire(key)
  \/ HttpTick

SpecErrors == Init /\ [][NextErrors]_vars

\* ------------------------------------------------ updateFromHeaders inputs
\* One engine fed with header values of every kind: remaining missing, 0, 59,
\* 999, 1000; reset missing, 0 s (due at once), 1 s, 2 s, and 100001 s, which
\* is taken as an absolute timestamp (long past).
RemainingInputs == { Missing, Num(0), Num(59), Num(999), Num(1000) }
ResetInputs ==
  { Missing, Num(0), Num(Ms(1000)), Num(Ms(2000)),
    Num(Ms((AbsoluteSeconds + 1) * 1000)) }
HeaderInputs == { Hdr(r, s, Missing) : r \in RemainingInputs, s \in ResetInputs }

\* Two tasks go through the engine.
HeaderTaskIds == {1, 2}

NextHeaders ==
  \/ Len(enqueued) + 1 \in HeaderTaskIds /\ Schedule
  \/ TimerFire
  \/ \E h \in HeaderInputs : UpdateFromHeaders(h)
  \/ Tick

SpecHeaders == Init /\ [][NextHeaders]_vars

\* ------------------------------------------------ RateLimiterManager actions
\* The paths the registry is asked for: a route, the same route as an
\* absolute URL with a query string, and another route.
P2 == Path("", "/v1/server/players", "")
PathSet == { P1, Path(baseUrl, "/v1/server", "?page=2"), P2 }

\* Two tasks go through the registry.
RouteTaskIds == {1, 2}

RouteHeaderSet == { Hdr(Num(3), Num(Ms(1000)), Missing) }

\* limiters.forPath(path).schedule(fn)
RouteSchedule(path) ==
  /\ Len(enqueued) + 1 \in RouteTaskIds
  /\ LET k == Len(enqueued) + 1
         map == forPath(limiters, path)
         key == normalizePath(path)
         r == schedule(map[key], k, now)
     IN /\ limiters' = onRoute(map, key, r.lim)
        /\ tasks' = afterPump([tasks EXCEPT ![k].st = "queued"], r)
        /\ enqueued' = Append(enqueued, k)
        /\ routed' = Append(routed, path)
        /\ started' = started \o r.started
  /\ UNCHANGED <<now, lim, etagCache, reqs, lastStart, penalized, budget>>

\* The fn of a running task returns: the then handler of its engine.
RouteComplete(k) ==
  /\ tasks[k].st = "running"
  /\ LET key == normalizePath(routed[k])
         r == complete(limiters[key], now)
     IN /\ limiters' = onRoute(limiters, key, r.lim)
        /\ tasks' = afterPump([tasks EXCEPT ![k] = settleWith(@, "ok")], r)
        /\ started' = started \o r.started
  /\ UNCHANGED <<now, lim, enqueued, etagCache, reqs, routed, lastStart, penalized, budget>>

\* The timer of the engine of a route goes off.
RouteTimerFire(key) ==
  /\ key \in DOMAIN limiters
  /\ limiters[key].timer
  /\ now >= limiters[key].timerDueTime
  /\ LET r == timerFired(limiters[key], now)
     IN /\ limiters' = onRoute(limiters, key, r.lim)
        /\ tasks' = afterPump(tasks, r)
        /\ started' = started \o r.started
  /\ UNCHANGED <<now, lim, enqueued, etagCache, reqs, routed, lastStart, penalized, budget>>

\* limiters.forPath(path).updateFromHeaders(headers)
RouteUpdateFromHeaders(key, h) ==
  /\ key \in DOMAIN limiters
  /\ LET r == updateFromHeaders(limiters[key], h, now)
     IN /\ limiters' = onRoute(limiters, key, r.lim)
        /\ tasks' = afterPump(tasks, r)
        /\ started' = started \o r.started
  /\ UNCHANGED <<now, lim, enqueued, etagCache, reqs, routed, lastStart, penalized, budget>>

\* limiters.forPath(path).penalize(waitMs)
RoutePenalize(key, w) ==
  /\ key \in DOMAIN limiters
  /\ limiters' = onRoute(limiters, key, penalize(limiters[key], w, now))
  /\ UNCHANGED <<now, engineVars, etagCache, reqs, routed, lastStart, penalized, budget>>

\* The clock advances, as long as an engine has a deadline ahead.
RouteTick ==
  /\ now < Ms(StartMs) + MaxRouteTicks * Ms(1000)
  /\ \E key \in DOMAIN limiters : Pending(limiters[key], now)
  /\ now' = now + Ms(1000)
  /\ UNCHANGED <<engineVars, httpVars>>

NextRoutes ==
  \/ \E path \in PathSet : RouteSchedule(path)
  \/ \E k \in RouteTaskIds : RouteComplete(k)
  \/ \E key \in {normalizePath(p) : p \in PathSet} : RouteTimerFire(key)
  \/ \E key \in {normalizePath(p) : p \in PathSet}, h \in RouteHeaderSet :
        RouteUpdateFromHeaders(key, h)
  \/ \E key \in {normalizePath(p) : p \in PathSet}, w \in PenaltySet :
        RoutePenalize(key, w)
  \/ RouteTick

SpecRoutes == Init /\ [][NextRoutes]_vars

\* ================================================================ claims

\* C1 (as stated): in every reachable state the number of running tasks is at
\* most currentConcurrency, also right after updateFromHeaders or a window
\* reset lowered currentConcurrency while tasks were in flight.
C1_RunningWithinConcurrency == lim.running <= lim.currentConcurrency

\* C1 (amended): the number of running tasks never exceeds the configured
\* maxConcurrency, and every step that starts a task ends with
\* running <= currentConcurrency; running exceeds currentConcurrency only
\* after a header update or window reset lowered it under tasks in flight.
C1_AdmissionWithinConcurrency ==
  /\ [](lim.running <= maxConcurrency)
  /\ [][lim'.running > lim.running
          => lim'.running <= lim'.currentConcurrency]_vars

\* currentConcurrency was lowered below the number of tasks in flight.
C1_Witness == lim.running >= 2 /\ lim.running > lim.currentConcurrency

\* C2: the tasks are started in the order schedule queued them: the started
\* tasks are a prefix of the enqueued tasks.
C2_Fifo ==
  /\ Len(started) <= Len(enqueued)
  /\ started = SubSeq(enqueued, 1, Len(started))

\* Two tasks were started, the second after waiting, and one is still queued.
C2_Witness ==
  /\ Len(started) >= 2
  /\ Len(lim.queue) >= 1
  /\ now > Ms(StartMs)

\* C3: the fn of a task is called at most once; its promise is settled at
\* most once, only after fn was called and has completed, resolved if fn
\* returned and rejected if fn threw; a completed task's promise is settled.
C3_SettledOnceWithOwnOutcome ==
  \A k \in TaskIds :
    LET task == tasks[k] IN
      /\ task.calls <= 1
      /\ task.settles <= 1
      /\ task.settledAs = "resolved" => task.fnResult = "ok"
      /\ task.settledAs = "rejected" => task.fnResult = "error"
      /\ task.settledAs # "none" => task.st = "settled" /\ task.calls = 1
      /\ task.st = "settled" => task.settles = 1 /\ task.settledAs # "none"
      /\ task.st \in {"new", "queued"} => task.calls = 0

\* One task was resolved and another rejected.
C3_Witness ==
  \E j, k \in TaskIds :
    tasks[j].settledAs = "resolved" /\ tasks[k].settledAs = "rejected"

\* The call is a GET without a body, the method upper-cased and GET by default.
IsGetNoBody(q) == methodOf(q) = "GET" /\ q.init.body = "null"

C5_NonRetryableAborts ==
  \A r \in ReqIds :
    LET q == reqs[r]
        err == q.lastErr
    IN (err.name \in {"TypeError", "Error", "ZodError"}
        \/ (err.name = "HttpError" /\ err.status \notin {429, 500, 503}))
       => /\ q.st = "failed"
          /\ err.from = q.fetches
          /\ q.settles = 1

\* One call failed on a non-retryable status at its second attempt, another
\* on a failure that is no HTTP status.
C5_Witness ==
  \E r, p \in ReqIds :
    /\ reqs[r].st = "failed"
    /\ reqs[r].lastErr.name = "HttpError"
    /\ reqs[r].lastErr.status = 404
    /\ reqs[r].fetches = 2
    /\ reqs[p].st = "failed"
    /\ reqs[p].lastErr.name \in {"TypeError", "Error", "ZodError"}

\* C6 (as stated): a transport call of a request whose last response was a
\* retryable failure with a retry hint of hintMs, received at hintAt, does not
\* start before hintAt + hintMs.
C6_NextAttemptAfterHint ==
  [][\A r \in ReqIds :
       (reqs[r].hinted /\ reqs'[r].fetches > reqs[r].fetches)
       => now' >= reqs[r].hintAt + reqs[r].hintMs]_vars

\* The delay a hint of h gives: whole milliseconds, at most 2^31 - 1.
HintDelay(h) ==
  IF h <= 0 THEN 0
  ELSE IF h \div Res >= MAX_TIMEOUT THEN Ms(MAX_TIMEOUT)
  ELSE (h \div Res) * Res

\* C6 (amended): that transport call does not start before
\* hintAt + min(floor(hintMs), 2^31 - 1) ms, whatever the backoff would be.
C6_NextAttemptAfterClampedHint ==
  [][\A r \in ReqIds :
       (reqs[r].hinted /\ reqs'[r].fetches > reqs[r].fetches)
       => now' >= reqs[r].hintAt + HintDelay(reqs[r].hintMs)]_vars

\* The second attempt of a call was started after a hint of more than 2 s.
C6_Witness ==
  \E r \in ReqIds :
    /\ reqs[r].fetches = 2
    /\ reqs[r].lastErr.from = 1
    /\ reqs[r].lastErr.retryAfterMs.def
    /\ reqs[r].lastErr.retryAfterMs.n > Ms(2000)

\* C7: a successful response to a GET without a body that carries the etag of
\* the cache entry of (method, url) makes the call return the stored payload
\* without parsing the body, and leaves the cache as it is.
C7_CacheRoundTrip ==
  [][\A r \in ReqIds :
       LET q == reqs[r]
           key == <<"GET", urlOf(q)>>
       IN ( /\ reqs'[r].responses > q.responses
            /\ IsGetNoBody(q)
            /\ key \in DOMAIN etagCache
            /\ reqs'[r].resp.status \in 200 .. 299
            /\ reqs'[r].resp.etag = etagCache[key].etag )
          => /\ reqs'[r].st = "returned"
             /\ reqs'[r].result = etagCache[key].data
             /\ reqs'[r].parses = q.parses
             /\ reqs'[r].validations = q.validations
             /\ etagCache' = etagCache]_vars

\* A call returned the stored payload on a 200 whose body is another one.
C7_Witness ==
  \E r \in ReqIds :
    /\ reqs[r].st = "returned"
    /\ reqs[r].fromCache
    /\ reqs[r].resp.status = 200
    /\ reqs[r].resp.body # ""
    /\ reqs[r].result.json # reqs[r].resp.body

\* C8: a 304 response to a GET without a body that has a cache entry makes
\* the call return the cached payload, without parsing a body, without
\* running the validator and without another transport call.
C8_NotModifiedReturnsCached ==
  /\ [][\A r \in ReqIds :
          LET q == reqs[r]
              key == <<"GET", urlOf(q)>>
          IN ( /\ reqs'[r].responses > q.responses
               /\ IsGetNoBody(q)
               /\ key \in DOMAIN etagCache
               /\ reqs'[r].resp.status = 304 )
             => /\ reqs'[r].st = "returned"
                /\ reqs'[r].result = etagCache[key].data
                /\ reqs'[r].parses = q.parses
                /\ reqs'[r].validations = q.validations
                /\ reqs'[r].fetches = q.fetches
                /\ etagCache' = etagCache]_vars
  /\ [][\A r \in ReqIds : reqs[r].st = "returned" => reqs'[r] = reqs[r]]_vars

\* A call returned the cached payload on a 304 at its first attempt.
C8_Witness ==
  \E r \in ReqIds :
    /\ reqs[r].st = "returned"
    /\ reqs[r].resp.status = 304
    /\ reqs[r].result.json = "{d1}"
    /\ reqs[r].parses = 0
    /\ reqs[r].validations = 0
    /\ reqs[r].fetches = 1

\* C9: a call is treated as cacheable iff it is a GET without a body; a
\* cacheable call sends the etag of its cache entry as if-none-match; any
\* other call sends no if-none-match, never returns a cached payload and the
\* step that settles it leaves the cache as it is.
C9_NonCacheableBypassesCache ==
  /\ [](\A r \in ReqIds :
          LET q == reqs[r] IN
            q.st # "idle" =>
              /\ cacheableOf(q) <=> IsGetNoBody(q)
              /\ IF IsGetNoBody(q)
                 THEN q.ifNoneMatch = q.cachedAtCall
                 ELSE q.ifNoneMatch = "" /\ ~q.fromCache /\ q.cacheWrites = 0)
  /\ [][\A r \in ReqIds :
          (reqs'[r].settles > reqs[r].settles /\ ~IsGetNoBody(reqs'[r]))
          => etagCache' = etagCache]_vars

\* A call that is not cacheable returned the body of a response whose etag
\* is the one of the cache entry of the url, not the cached payload.
C9_Witness ==
  \E r \in ReqIds :
    /\ ~IsGetNoBody(reqs[r])
    /\ reqs[r].st = "returned"
    /\ reqs[r].cachedAtCall # ""
    /\ reqs[r].resp.etag = reqs[r].cachedAtCall
    /\ reqs[r].result.json # etagCache[<<"GET", urlOf(reqs[r])>>].data.json

\* C10 (as stated): a call that fails fails with an HttpError.
C10_FailsWithHttpError ==
  \A r \in ReqIds : reqs[r].st = "failed" => reqs[r].lastErr.name = "HttpError"

\* C10 (amended): a call settles at most once, by returning or by failing.
\* What it returns is the cached payload or the payload of the last response,
\* validated when a schema was given.  What it fails with is an HttpError of
\* the last response when that response was not a 2xx, and otherwise the raw
\* error: the transport's, parseBody's Error or the validator's.
C10_OneOutcome ==
  \A r \in ReqIds :
    LET q == reqs[r]
        err == q.lastErr
    IN /\ q.settles <= 1
       /\ q.settles = 1 <=> q.st \in {"returned", "failed"}
       /\ q.st = "returned" /\ ~q.fromCache =>
            /\ q.resp.status \in 200 .. 299
            /\ q.result.validated = q.init.schema
            /\ q.result.json = IF q.resp.status \in {204, 205} \/ q.resp.body = ""
                               THEN "undefined" ELSE q.resp.body
       /\ q.st = "failed" =>
            /\ err.name \in {"HttpError", "TypeError", "Error", "ZodError"}
            /\ err.from = q.fetches
            /\ err.name = "HttpError" =>
                 /\ q.responses = q.fetches
                 /\ q.resp.status \notin 200 .. 299
                 /\ err.status = q.resp.status
                 /\ err.rawBody = q.resp.body
                 /\ err.retryAfterMs = num(q.resp.retryAfter)
            /\ err.name = "TypeError" => q.responses < q.fetches
            /\ err.name = "Error" =>
                 q.resp.status \in 200 .. 299 /\ q.resp.body = "junk"
            /\ err.name = "ZodError" =>
                 q.resp.status \in 200 .. 299 /\ q.init.schema

\* One call failed with an HttpError, another with a raw error.
C10_Witness ==
  \E r, p \in ReqIds :
    /\ reqs[r].st = "failed"
    /\ reqs[r].lastErr.name = "HttpError"
    /\ reqs[p].st = "failed"
    /\ reqs[p].lastErr.name \in {"TypeError", "Error", "ZodError"}

\* The engine's values after its constructor or a window reset.
Baseline(e) ==
  /\ e.windowResetAt = 0
  /\ e.windowDuration = Ms(DEFAULT_WINDOW_MS)
  /\ e.currentConcurrency = 1
  /\ e.currentInterval = Max(minInterval, Ms(CeilDiv(60000, requestsPerMinute)))

\* The clock has passed the end of the engine's window.
WindowElapsed(e, t) == e.windowResetAt # 0 /\ t >= e.windowResetAt

\* C11 (as stated): in every state where the clock has passed windowResetAt,
\* currentConcurrency is 1 and currentInterval is the default interval.
C11_BaselineOncePassed ==
  WindowElapsed(lim, now) =>
    /\ lim.currentConcurrency = 1
    /\ lim.currentInterval = Max(minInterval, Ms(CeilDiv(60000, requestsPerMinute)))

\* C11 (amended): the reset is applied by the first pump with a task queued
\* (or header update) at or after windowResetAt.  A step other than a header
\* update taken after windowResetAt either leaves the window as it is or
\* resets it to the baseline; schedule always resets it; and a step that
\* starts a task resets it first, so the task is admitted under concurrency 1
\* and the next start is one default interval away.
C11_ResetBeforeAdmission ==
  [][WindowElapsed(lim, now)
     => \/ /\ lim'.windowResetAt = lim.windowResetAt \/ Baseline(lim')
           /\ lim'.windowResetAt = lim.windowResetAt =>
                /\ lim'.currentInterval = lim.currentInterval
                /\ lim'.currentConcurrency = lim.currentConcurrency
                /\ Len(started') = Len(started)
           /\ Len(enqueued') > Len(enqueued) => Baseline(lim')
           /\ Len(started') > Len(started) =>
                /\ Baseline(lim')
                /\ lim'.running = 1
                /\ lim'.nextAvailableTime = now + lim'.currentInterval
        \/ \E h \in RateHeaderSet : UpdateFromHeaders(h)]_vars

\* Three tasks were started within a second, which takes a header update
\* with a window, and the third was started after that window's reset.
C11_Witness ==
  /\ Len(started) = 3
  /\ now = Ms(StartMs) + 2 * TickStep
  /\ Baseline(lim)
  /\ lim.nextAvailableTime = now + lim.currentInterval

\* Two paths that differ at most in their query string and in being absolute
\* or relative.
SameRoute(p, q) == p.pathname = q.pathname

\* Paths in every form: relative or absolute, with or without a query string.
AllPaths ==
  { Path(o, n, q) : o \in {"", baseUrl, "https://placeholder.local"},
                    n \in {"/v1/server", "/v1/server/players", "/"},
                    q \in {"", "?page=2"} }

\* The tasks that came with a path of the route of path p.
TasksOfRoute(p) == { k \in 1 .. Len(routed) : SameRoute(routed[k], p) }

\* C12: the registry maps the paths of one route to one key, whatever their
\* query string or form; it holds an engine for exactly the routes used so
\* far; the engine of a route accounts for all the tasks that came with a
\* path of that route and no others (it is the one engine every forPath of
\* the route returned); and a key, once mapped, stays mapped.
C12_OneEnginePerRoute ==
  /\ [](/\ \A p, q \in AllPaths :
             SameRoute(p, q) => normalizePath(p) = normalizePath(q)
        /\ DOMAIN limiters = { normalizePath(routed[k]) : k \in 1 .. Len(routed) }
        /\ \A k \in 1 .. Len(routed) :
             LET e == limiters[normalizePath(routed[k])]
                 mine == TasksOfRoute(routed[k])
             IN /\ e.running = Cardinality({ j \in mine : tasks[j].st = "running" })
                /\ { e.queue[i] : i \in 1 .. Len(e.queue) }
                     = { j \in mine : tasks[j].st = "queued" })
  /\ [][DOMAIN limiters \subseteq DOMAIN limiters']_vars

\* Two tasks came with different paths of one route and are held by the one
\* engine of the registry, the first running and the second queued.
C12_Witness ==
  /\ Cardinality(DOMAIN limiters) = 1
  /\ \E j, k \in 1 .. Len(routed) :
       /\ routed[j] # routed[k]
       /\ SameRoute(routed[j], routed[k])
       /\ tasks[j].st = "running"
       /\ tasks[k].st = "queued"
       /\ limiters[normalizePath(routed[j])].queue = <<k>>

\* C20: a step changes the engine of at most one route, and the tasks it
\* touches are tasks of that route: every other engine keeps its queue,
\* running count, next start, interval, concurrency, window and timer.
C20_RoutesIndependent ==
  [][\A key \in DOMAIN limiters' :
       (key \notin DOMAIN limiters \/ limiters'[key] # limiters[key])
       => /\ \A other \in DOMAIN limiters \ {key} :
               limiters'[other] = limiters[other]
          /\ \A k \in 1 .. Len(routed') :
               tasks'[k] # tasks[k] => routed'[k].pathname = key]_vars

\* Two routes have engines in different states: one with a window, a raised
\* concurrency and a penalty, the other as its one admission left it.
C20_Witness ==
  \E a, b \in DOMAIN limiters :
    /\ a # b
    /\ limiters[a].windowResetAt # 0
    /\ limiters[a].currentConcurrency > 1
    /\ limiters[a].nextAvailableTime > now + limiters[a].currentInterval
    /\ limiters[b].windowResetAt = 0
    /\ limiters[b].currentConcurrency = 1
    /\ limiters[b].running = 1
    /\ limiters[b].nextAvailableTime = Ms(StartMs) + limiters[b].currentInterval
    /\ now > Ms(StartMs)

\* C13: the step that receives a response, whatever its status, feeds the
\* response's headers to the engine of the route before anything else: when
\* the step ends at the read of the body (error classification, penalize,
\* parsing and the cache write are still to come) the engine is the one
\* updateFromHeaders gives, and when the step settles the run (cache hit, or
\* a response without a body) the engine is that one after the run's
\* completion handler.  Bodies are read, errors classified and the cache
\* written only for a response that was received.
C13_HeadersFedFirst ==
  /\ [][\A r \in ReqIds :
          reqs'[r].responses > reqs[r].responses =>
            LET key == normalizePath(reqs[r].init.path)
                u == updateFromHeaders(limiters[key], reqs'[r].resp, now)
            IN /\ reqs'[r].st \in {"errbody", "okbody", "returned", "failed"}
               /\ reqs'[r].st \in {"errbody", "okbody"} =>
                    /\ limiters'[key] = u.lim
                    /\ reqs'[r].parses = reqs[r].parses
                    /\ reqs'[r].lastErr = reqs[r].lastErr
                    /\ etagCache' = etagCache
               /\ reqs'[r].st \in {"returned", "failed"} =>
                    limiters'[key] = complete(u.lim, now).lim]_vars
  /\ [](\A r \in ReqIds :
          LET q == reqs[r] IN
            /\ q.st \in {"errbody", "okbody"} => q.responses = q.fetches
            /\ q.parses <= q.responses
            /\ q.cacheWrites <= q.parses
            /\ q.lastErr.name = "HttpError" => q.lastErr.from <= q.responses)

\* A 429 with rate headers was received and its body is not read yet: the
\* engine already has the window of those headers.
C13_Witness ==
  \E r \in ReqIds :
    /\ reqs[r].st = "errbody"
    /\ reqs[r].resp.status = 429
    /\ reqs[r].lastErr.name = "none"
    /\ limiters[normalizePath(reqs[r].init.path)].windowResetAt
         = now + reqs[r].resp.reset.n

\* The pacing state of an engine.
PacingState(e) ==
  <<e.currentInterval, e.currentConcurrency, e.windowResetAt,
    e.windowDuration, e.nextAvailableTime>>

\* The engine after one and after two calls of updateFromHeaders(h) at the
\* clock value of the state.
Once(h) == updateFromHeaders(lim, h, now).lim
Twice(h) == updateFromHeaders(Once(h), h, now).lim

\* The headers carry a reset value whose reset instant is not after the clock.
DueReset(h) ==
  LET rate == parseRateHeaders(h)
  IN /\ rate.resetSeconds.def
     /\ resolveReset(lim, rate.resetSeconds.n, now).resetAt <= now

\* C14 (as stated): from every engine state and for every header values, a
\* second updateFromHeaders at the same clock value leaves the pacing state
\* the first one left.
C14_UpdateIdempotent ==
  \A h \in HeaderInputs : PacingState(Twice(h)) = PacingState(Once(h))

\* C14 (amended): a second updateFromHeaders at the same clock value leaves
\* the pacing state the first one left when the headers carry no reset value
\* or one whose reset instant is after the clock.
C14_IdempotentUnlessDue ==
  \A h \in HeaderInputs :
    ~DueReset(h) => PacingState(Twice(h)) = PacingState(Once(h))

\* A task is queued behind a window, and headers with a remaining value and a
\* reset ahead change the pacing state when applied once and leave it alone
\* when applied again.
C14_Witness ==
  /\ Len(lim.queue) = 1
  /\ lim.windowResetAt > now
  /\ \E h \in HeaderInputs :
       /\ ~DueReset(h)
       /\ h.remaining # Missing
       /\ h.reset # Missing
       /\ PacingState(Once(h)) # PacingState(lim)
       /\ PacingState(Twice(h)) = PacingState(Once(h))

\* Header values with a remaining value and a reset value, the reset value
\* one the engine takes as relative seconds.
Relative(h) ==
  LET seconds == Max(0, h.reset.n)
  IN /\ h.remaining # Missing
     /\ h.reset # Missing
     /\ ~(seconds > Ms(1000) * ((now \div Ms(1000)) + SlackSeconds))
     /\ ~(seconds > Ms(1000) * AbsoluteSeconds)

\* C15 (as stated): for every remaining r >= 0 and reset s >= 0, the interval
\* updateFromHeaders leaves strictly decreases when r increases with s fixed
\* and strictly increases when s increases with r fixed.
C15_IntervalStrictlyMonotone ==
  \A h1, h2 \in HeaderInputs :
    /\ h1.remaining # Missing /\ h2.remaining # Missing
    /\ h1.reset # Missing /\ h2.reset # Missing
    => /\ (h1.reset = h2.reset /\ h1.remaining.n < h2.remaining.n)
            => Once(h1).currentInterval > Once(h2).currentInterval
       /\ (h1.remaining = h2.remaining /\ h1.reset.n < h2.reset.n)
            => Once(h1).currentInterval < Once(h2).currentInterval

\* C15 (amended): the interval updateFromHeaders leaves does not increase
\* when r increases with the reset value fixed, and does not decrease when a
\* positive reset value taken as relative seconds increases with r fixed.
C15_IntervalMonotone ==
  \A h1, h2 \in HeaderInputs :
    /\ h1.remaining # Missing /\ h2.remaining # Missing
    /\ h1.reset # Missing /\ h2.reset # Missing
    => /\ (h1.reset = h2.reset /\ h1.remaining.n < h2.remaining.n)
            => Once(h1).currentInterval >= Once(h2).currentInterval
       /\ (/\ h1.remaining = h2.remaining
           /\ Relative(h1) /\ Relative(h2)
           /\ 0 < h1.reset.n /\ h1.reset.n < h2.reset.n)
            => Once(h1).currentInterval <= Once(h2).currentInterval

\* The engine was fed remaining 59 and reset 2 s (interval 34 ms); more
\* remaining gives a shorter interval, a shorter reset a shorter interval.
C15_Witness ==
  /\ lim.windowResetAt = now + Ms(2000)
  /\ lim.currentInterval = Ms(34)
  /\ Once(Hdr(Num(999), Num(Ms(2000)), Missing)).currentInterval < Ms(34)
  /\ Once(Hdr(Num(59), Num(Ms(1000)), Missing)).currentInterval < Ms(34)

\* The time to the reset of the window of engine e as the headers' formulas
\* are stated: the time until the known reset, the window's duration if the
\* reset is unknown.
StatedTimeToReset(e) ==
  IF e.windowResetAt # 0 THEN Max(0, e.windowResetAt - now) ELSE e.windowDuration

\* The same as the program takes it: the window's duration as well when the
\* known reset is not after the clock.
TimeToReset(e) ==
  IF e.windowResetAt > now THEN e.windowResetAt - now ELSE e.windowDuration

\* The closing pump of updateFromHeaders(h) resets the window the call armed:
\* the reset instant is not after the clock and a task is queued.
ResetByPump(h) == DueReset(h) /\ Len(lim.queue) > 0

\* max(minInterval, ceil(T / (r + 1)))
StatedInterval(r, T) == Max(minInterval, Ms(CeilDiv(T, Res * (Max(0, r) + 1))))

\* C16 (as stated): after updateFromHeaders with a remaining value r the
\* interval is max(minInterval, ceil(timeToReset / (r + 1))), timeToReset the
\* time until the known reset or the window's duration if unknown.
C16_IntervalFormula ==
  \A h \in HeaderInputs :
    h.remaining # Missing =>
      Once(h).currentInterval
        = StatedInterval(h.remaining.n, StatedTimeToReset(Once(h)))

\* C16 (amended): after updateFromHeaders with a remaining value r the
\* interval is max(minInterval, ceil(T / (r + 1))), T the time until the known
\* reset when that is after the clock and the window's duration otherwise;
\* but when the headers' reset instant is not after the clock and a task is
\* queued, the call ends with the window reset and the default interval.
\* With 60 requests per minute, remaining 59 and no window known after the
\* call, the interval is 1000 ms and the concurrency 1.
C16_IntervalFormulaByWindow ==
  /\ \A h \in HeaderInputs :
       h.remaining # Missing =>
         Once(h).currentInterval
           = IF ResetByPump(h) THEN defaultInterval
             ELSE StatedInterval(h.remaining.n, TimeToReset(Once(h)))
  /\ LET o == Once(Hdr(Num(59), Missing, Missing))
     IN o.windowResetAt = 0 =>
          o.currentInterval = Ms(1000) /\ o.currentConcurrency = 1

\* The engine was fed remaining 59 and reset 1 s: the interval is
\* ceil(1000 / 60) = 17 ms.
C16_Witness ==
  /\ lim.windowResetAt = now + Ms(1000)
  /\ lim.windowDuration = Ms(1000)
  /\ lim.currentInterval = Ms(17)
  /\ Once(Hdr(Num(59), Num(Ms(1000)), Missing)).currentInterval = Ms(17)

\* clamp(round((tokens / T) * defaultInterval), 1, maxConcurrency); a division
\* by zero gives Infinity, which the clamp takes to maxConcurrency.
StatedConcurrency(r, T) ==
  IF T = 0 THEN maxConcurrency
  ELSE Min(maxConcurrency,
           Max(1, RoundDiv((Max(0, r) + 1) * defaultInterval, T)))

\* C18 (as stated): the concurrency is always between 1 and maxConcurrency,
\* and after updateFromHeaders with a remaining value it is
\* clamp(round((tokens / timeToReset) * defaultInterval), 1, maxConcurrency).
C18_ConcurrencyFormula ==
  /\ 1 <= lim.currentConcurrency /\ lim.currentConcurrency <= maxConcurrency
  /\ \A h \in HeaderInputs :
       h.remaining # Missing =>
         Once(h).currentConcurrency
           = StatedConcurrency(h.remaining.n, StatedTimeToReset(Once(h)))

\* C18 (amended): the concurrency is always between 1 and maxConcurrency,
\* and after updateFromHeaders with a remaining value it is
\* clamp(round((tokens / T) * defaultInterval), 1, maxConcurrency), T the time
\* until the known reset when that is after the clock and the window's
\* duration otherwise; but when the headers' reset instant is not after the
\* clock and a task is queued, the call ends with the window reset and the
\* base concurrency.
C18_ConcurrencyFormulaByWindow ==
  /\ 1 <= lim.currentConcurrency /\ lim.currentConcurrency <= maxConcurrency
  /\ \A h \in HeaderInputs :
       h.remaining # Missing =>
         Once(h).currentConcurrency
           = IF ResetByPump(h) THEN baseConcurrency
             ELSE StatedConcurrency(h.remaining.n, TimeToReset(Once(h)))

\* The engine was fed remaining 999 and reset 1 s: the ratio is 1000 and the
\* concurrency the configured maximum, with two tasks running at once.
C18_Witness ==
  /\ lim.windowResetAt = now + Ms(1000)
  /\ lim.currentInterval = Ms(1)
  /\ lim.currentConcurrency = maxConcurrency
  /\ lim.running = 2
  /\ Once(Hdr(Num(999), Num(Ms(1000)), Missing)).currentConcurrency
       = maxConcurrency

\* C19: nextAvailableTime does not decrease in any step of the engine
\* (admission, completion, penalize, updateFromHeaders, timer firing) other
\* than one that applies a window reset: a step taken once the clock has
\* passed the window's end, or an updateFromHeaders whose headers give a
\* reset instant not after the clock while a task is queued.  A reset brings
\* it down to the clock value, not below.
C19_NextAvailableNeverDecreases ==
  [][lim'.nextAvailableTime < lim.nextAvailableTime =>
       /\ lim'.nextAvailableTime >= now
       /\ \/ WindowElapsed(lim, now)
          \/ /\ Len(lim.queue) > 0
             /\ \E h \in RateHeaderSet : DueReset(h) /\ UpdateFromHeaders(h)]_vars

\* The first admission put nextAvailableTime one interval after the start; a
\* reset applied with the second task queued has brought it back to the clock
\* value.
C19_Witness ==
  /\ Len(started) = 1
  /\ Len(lim.queue) = 1
  /\ lim.running = 1
  /\ now = Ms(StartMs)
  /\ lim.nextAvailableTime = now

\* Call q got 429 with retry-after: 5 as its first response and 200 with a
\* validation token as its second, the body of which is being read.
RetriedOnce(q) ==
  /\ cacheableOf(q)
  /\ q.responses = 2
  /\ q.lastErr.name = "HttpError" /\ q.lastErr.status = 429
  /\ q.lastErr.from = 1
  /\ q.lastErr.retryAfterMs = [def |-> TRUE, n |-> Ms(5000)]
  /\ q.resp.status = 200
  /\ q.resp.etag # ""

\* The body of q's response is a payload the schema accepts.
ValidPayload(q) ==
  /\ ~parseBody(q.resp).threw
  /\ ~validate(q.init.schema, parseBody(q.resp).value).threw

\* C17: when the first response to a cacheable call is 429 with
\* retry-after: 5, the second transport call starts 5000 ms or more after
\* that response; when the second response is 200 with a fresh validation
\* token and a valid payload, the call returns that payload, the cache holds
\* it under the fresh token, and two transport calls were made, no more.
C17_RetryAfterFiveThenFresh ==
  /\ [][\A r \in ReqIds :
          LET q == reqs[r] IN
            /\ ( /\ q.responses = 1 /\ q.resp.status = 429
                 /\ q.hinted /\ q.hintMs = Ms(5000)
                 /\ reqs'[r].fetches > q.fetches )
               => /\ reqs'[r].fetches = 2
                  /\ now' >= q.hintAt + Ms(5000)
            /\ ( /\ q.st = "okbody" /\ reqs'[r].st # "okbody"
                 /\ RetriedOnce(q) /\ ValidPayload(q) )
               => /\ reqs'[r].st = "returned"
                  /\ reqs'[r].fetches = 2
                  /\ reqs'[r].result.json = q.resp.body
                  /\ ~reqs'[r].fromCache
                  /\ cacheKeyOf(q) \in DOMAIN etagCache'
                  /\ etagCache'[cacheKeyOf(q)]
                       = [etag |-> q.resp.etag, data |-> reqs'[r].result]]_vars
  /\ [](\A r \in ReqIds :
          (reqs[r].st = "returned" /\ RetriedOnce(reqs[r]))
            => reqs[r].fetches = 2 /\ reqs[r].settles = 1)

\* A call made with e1 in the cache got 429 with retry-after: 5, then 200
\* with e2, and returned the payload of the 200, now cached under e2, 5 s or
\* more after the start.
C17_Witness ==
  \E r \in ReqIds :
    /\ reqs[r].st = "returned"
    /\ RetriedOnce(reqs[r])
    /\ reqs[r].cachedAtCall = "e1"
    /\ reqs[r].resp.etag = "e2"
    /\ reqs[r].result.json = "{d2}"
    /\ ~reqs[r].fromCache
    /\ etagCache[cacheKeyOf(reqs[r])].etag = "e2"
    /\ now >= Ms(StartMs) + Ms(5000)

\* Call r's failed response is classified in this step.
Classified(r) == reqs[r].st = "errbody" /\ reqs'[r].st # "errbody"

\* C21 (as stated): the classification of a failed response never fails: it
\* gives an HttpError with the status of the response and with retryAfterMs
\* 1000 times the numeric retry-after, absent when retry-after is missing or
\* not numeric.
C21_ClassifierNeverFails ==
  [][\A r \in ReqIds :
       Classified(r) =>
         LET resp == reqs[r].resp
             err == reqs'[r].lastErr
         IN /\ err.name = "HttpError"
            /\ err.status = resp.status
            /\ err.retryAfterMs
                 = IF resp.retryAfter.kind = "num"
                   THEN [def |-> TRUE, n |-> resp.retryAfter.n]
                   ELSE undefined]_vars

\* C22 (as stated): when the body of a failed response does not parse, the
\* raw body text is the message of the error; when it parses, code and
\* commandId are taken from it.
C22_RawTextIsMessage ==
  [][\A r \in ReqIds :
       (Classified(r) /\ reqs'[r].lastErr.name = "HttpError") =>
         LET resp == reqs[r].resp
             err == reqs'[r].lastErr
         IN IF JSONparse(bodyText(resp)).threw
            THEN err.message.text = bodyText(resp)
            ELSE /\ err.code = field(bodyText(resp), "code")
                 /\ err.commandId = field(bodyText(resp), "commandId")]_vars

\* err is the HttpError of the failed response resp as C22 (amended) has it.
GenericMessage(resp, err) ==
  LET text == bodyText(resp)
  IN /\ err.rawBody = text
     /\ err.message.status = resp.status
     /\ err.message.code = err.code
     /\ IF JSONparse(text).threw \/ text = "null"
        THEN /\ err.message.text
                  = IF resp.statusText # "" THEN resp.statusText
                    ELSE "Request failed"
             /\ err.code = Absent /\ err.commandId = Absent
             /\ err.details = <<"raw", text>>
        ELSE /\ err.message.text
                  = IF field(text, "message") # Absent
                    THEN field(text, "message")
                    ELSE IF resp.statusText # "" THEN resp.statusText
                    ELSE "Request failed"
             /\ err.code = field(text, "code")
             /\ err.commandId = field(text, "commandId")
             /\ err.details = <<"parsed", text>>

\* C22 (amended): the message of the error is the message of the parsed body
\* when there is one, else the reason phrase of the response, else "Request
\* failed", prefixed with the status and the code; the raw body text is kept
\* as rawBody, and as details when the body does not parse or is null; when
\* the body parses, code and commandId are taken from it.
C22_GenericMessage ==
  /\ [][\A r \in ReqIds :
          (Classified(r) /\ reqs'[r].lastErr.name = "HttpError") =>
            GenericMessage(reqs[r].resp, reqs'[r].lastErr)]_vars
  /\ [](\A resp \in ErrorInputs :
          LET err == toHttpError(resp, 1)
          IN err.name = "HttpError" => GenericMessage(resp, err))

\* A call failed on a 404 whose body is no JSON: the message is the reason
\* phrase and the body text is in rawBody; another failed with the code, the
\* message and the commandId of its body.
C22_Witness ==
  \E a, b \in ReqIds :
    /\ reqs[a].st = "failed" /\ reqs[a].lastErr.name = "HttpError"
    /\ reqs[a].resp.body = "junk"
    /\ reqs[a].lastErr.message = [status |-> 404, code |-> Absent, text |-> "Not Found"]
    /\ reqs[a].lastErr.rawBody = "junk"
    /\ reqs[b].st = "failed" /\ reqs[b].lastErr.name = "HttpError"
    /\ reqs[b].lastErr.message = [status |-> 404, code |-> "c1", text |-> "m1"]
    /\ reqs[b].lastErr.commandId = "id1"

\* What C23 has for a header value: the number it denotes, absent when the
\* header is missing or its value is not numeric, the empty value included.
StatedNum(v) == IF v.kind = "num" THEN [def |-> TRUE, n |-> v.n] ELSE undefined

\* C23 (as stated): for the headers of every response received,
\* parseRateHeaders gives remaining, resetSeconds and retryAfterSeconds as
\* absent when the header is missing or its value is not numeric (an empty
\* value included), and as the numeric value otherwise.
C23_AbsentUnlessNumeric ==
  \A r \in ReqIds :
    LET h == reqs[r].resp
        rate == parseRateHeaders(h)
    IN /\ rate.remaining = StatedNum(h.remaining)
       /\ rate.resetSeconds = StatedNum(h.reset)
       /\ rate.retryAfterSeconds = StatedNum(h.retryAfter)

\* The tasks a step admits and the tasks it completes.
Admitted == SubSeq(started', Len(started) + 1, Len(started'))
Completed == { k \in TaskIds : tasks[k].st = "running" /\ tasks'[k].st = "settled" }

\* C24: a step admits at most one task, the head of the queue, and only with
\* fewer tasks running than currentConcurrency and the clock at or after
\* nextAvailableTime, both as they are after a window reset the step applies;
\* it leaves nextAvailableTime at max(now, nextAvailableTime) +
\* currentInterval, which is now + currentInterval.  running goes up by one
\* for the task admitted and down by one for the task completed, whether it
\* succeeded or failed.
C24_AdmissionStep ==
  [][/\ Len(started') <= Len(started) + 1
     /\ lim'.running = lim.running + Len(Admitted) - Cardinality(Completed)
     /\ Admitted # <<>> =>
          /\ Admitted[1] = IF lim.queue # <<>> THEN Head(lim.queue)
                           ELSE enqueued'[Len(enqueued')]
          /\ lim'.queue = IF lim.queue # <<>>
                          THEN Tail(lim.queue) \o SubSeq(enqueued', Len(enqueued) + 1, Len(enqueued'))
                          ELSE <<>>
          /\ lim'.running - 1 < lim'.currentConcurrency
          /\ lim'.nextAvailableTime = now + lim'.currentInterval
          /\ lim'.nextAvailableTime
               = Max(now, maybeReset(lim, now).nextAvailableTime) + lim'.currentInterval
               \/ \E h \in RateHeaderSet : DueReset(h) /\ UpdateFromHeaders(h)
          /\ \/ now >= maybeReset(lim, now).nextAvailableTime
             \/ \E h \in RateHeaderSet : DueReset(h) /\ UpdateFromHeaders(h)]_vars

\* A task failed and the step that completed it admitted the next one: three
\* tasks were started, one is settled as rejected, and nextAvailableTime is
\* one interval after the clock, which has advanced.
C24_Witness ==
  /\ Len(started) = 3
  /\ \E k \in TaskIds : tasks[k].settledAs = "rejected"
  /\ lim.running = 2
  /\ lim.queue = <<>>
  /\ now > Ms(StartMs)
  /\ lim.nextAvailableTime = now + lim.currentInterval

\* A task is queued and none is admissible.
Blocked(e, t) ==
  /\ Len(e.queue) > 0
  /\ e.running >= e.currentConcurrency \/ t < e.nextAvailableTime

\* C25 (as stated): whenever a task is queued and none is admissible, the
\* timer is armed and due no later than the earliest time admission could
\* succeed; when the queue is empty no timer is armed.
C25_TimerWhenBlocked ==
  /\ Blocked(lim, now) =>
       /\ lim.timer
       /\ lim.timerDueTime <= Max(now, lim.nextAvailableTime)
  /\ Len(lim.queue) = 0 => ~lim.timer

\* C26 (as stated): two successive admissions are separated by at least the
\* interval in effect at the earlier one, whatever happens in between.
C26_SpacingAlways ==
  ~lastStart.first => lastStart.gap >= lastStart.prevInterval

\* C26 (amended): two successive admissions are separated by at least the
\* interval in effect at the earlier one unless a window reset is applied
\* between them, the step of the later admission included.
C26_SpacingUnlessReset ==
  ~lastStart.first =>
    lastStart.gap >= lastStart.prevInterval \/ lastStart.resetBefore

\* A second admission came one default interval after the first, with headers
\* applied and no window reset in between.
C26_Witness ==
  /\ ~lastStart.first
  /\ ~lastStart.resetBefore
  /\ lastStart.prevInterval = defaultInterval
  /\ lastStart.gap = defaultInterval
  /\ lastStart.interval < defaultInterval
  /\ lim.windowResetAt > now

\* ------------------------------------------------------------ penalties
\* min(x, 2^31 - 1 ms) of a duration x
Capped(x) == IF x \div Res >= MAX_TIMEOUT THEN Ms(MAX_TIMEOUT) ELSE x

PositiveFinite(w) == w.type = "number" /\ w.finite /\ w.n > 0
WholeMs(w) == PositiveFinite(w) /\ w.n >= Ms(1)

\* A delay handed to setTimeout: a whole number of ms in [0, 2^31 - 1].
TimerDelayOK(d) == d >= 0 /\ d % Res = 0 /\ d \div Res <= MAX_TIMEOUT

Stored(r) ==
  LET q == reqs[r]
      q2 == reqs'[r]
      payload == parseBody(q2.resp)
      validated == validate(q2.init.schema, payload.value)
  IN /\ q.st \in {"fetching", "okbody"}
     /\ q2.st = "returned"
     /\ ~q2.fromCache
     /\ ok(q2.resp)
     /\ cacheableOf(q2)
     /\ q2.resp.etag # ""
     /\ q2.parses = q.parses + 1
     /\ ~payload.threw
     /\ q2.init.schema => q2.validations = q.validations + 1
     /\ ~validated.threw
     /\ q2.result = validated.value
     /\ etagCache' = (cacheKeyOf(q2) :> [etag |-> q2.resp.etag,
                                         data |-> validated.value]) @@ etagCache

\* Call r ended an attempt in this step with a failure.
AttemptFailed(r) == reqs'[r].lastErr # reqs[r].lastErr

\* C28: the cache changes only in a step in which an attempt returns a
\* successful response of a cacheable call that carries a token, after
\* parseBody and the validator returned, and the entry written is that token
\* with the validated payload; a step in which an attempt fails (HTTP,
\* decode, validation or transport failure) leaves the cache unchanged; no
\* entry is ever removed.
C28_CacheWrittenOnValidatedSuccess ==
  [][/\ etagCache' # etagCache => \E r \in ReqIds : Stored(r)
     /\ (\E r \in ReqIds : AttemptFailed(r)) => etagCache' = etagCache
     /\ DOMAIN etagCache \subseteq DOMAIN etagCache']_vars

\* The cache holds the entry of a first response; later attempts failed with
\* a decode failure and a validation failure of responses that carried
\* another token.
C28_Witness ==
  /\ reqs[1].st = "returned"
  /\ reqs[1].cacheWrites = 1
  /\ reqs[2].st = "failed"
  /\ reqs[2].lastErr.name \in {"Error", "ZodError"}
  /\ reqs[2].resp.etag = "e2"
  /\ cacheKeyOf(reqs[2]) \in DOMAIN etagCache
  /\ etagCache[cacheKeyOf(reqs[2])].etag = "e1"

\* ------------------------------------------------ conditional requests
\* Call r transmits an attempt in this step: fetchImpl is called.
Transmitted(r) == reqs'[r].fetches = reqs[r].fetches + 1

\* C29: an attempt of a cacheable call transmitted while the cache holds an
\* entry for its identity carries if-none-match with the token the cache holds
\* at that moment (the cache before or after the step, whichever the
\* transmission saw).
C29_ConditionalTokenCurrent ==
  [][\A r \in ReqIds :
       LET q == reqs'[r]
           key == cacheKeyOf(q)
       IN Transmitted(r) /\ cacheableOf(q) /\ key \in DOMAIN etagCache
                         /\ key \in DOMAIN etagCache' =>
            q.ifNoneMatch \in {etagCache[key].etag, etagCache'[key].etag}]_vars

\* ------------------------------------------------------------ liveness
\* The engine under load for LoadTicks observations of the clock, then left
\* to drain: callers schedule, penalize and feed headers only while Loading,
\* so that penalize is called finitely often, and the clock runs on for as
\* long as the queue can need (one interval of at most a second per task).
Loading == now < Ms(StartMs) + LoadTicks * TickStep
LiveTaskIds == {1, 2}
LiveHorizon ==
  Ms(StartMs) + LoadTicks * TickStep + (Cardinality(LiveTaskIds) + 1) * Ms(1000)

LiveSchedule == Loading /\ Len(enqueued) < Cardinality(LiveTaskIds) /\ Schedule
LivePenalize(w) == Loading /\ Penalize(w)
LiveUpdateFromHeaders(h) == Loading /\ UpdateFromHeaders(h)

LiveTick ==
  /\ now < LiveHorizon
  /\ Pending(lim, now)
  /\ now' = now + TickStep
  /\ UNCHANGED <<engineVars, httpVars>>

NextLive ==
  \/ LiveSchedule
  \/ \E k \in LiveTaskIds, res \in {"ok", "error"} : Complete(k, res)
  \/ TimerFire
  \/ \E h \in RateHeaderSet : LiveUpdateFromHeaders(h)
  \/ \E w \in PenaltySet : LivePenalize(w)
  \/ LiveTick

\* Every admitted task eventually completes, timers eventually fire, time
\* passes.
SpecLive ==
  /\ Init
  /\ [][NextLive]_vars
  /\ \A k \in LiveTaskIds : WF_vars(\E res \in {"ok", "error"} : Complete(k, res))
  /\ WF_vars(TimerFire)
  /\ WF_vars(LiveTick)

\* A non-empty queue, no task running and no timer armed.
Stalled(e) == Len(e.queue) > 0 /\ e.running = 0 /\ ~e.timer

\* C30: every task enqueued on the engine is eventually admitted and its
\* promise settled, and the engine is never left with a non-empty queue, no
\* running task and no armed timer.
C30_EveryTaskSettles ==
  /\ \A k \in LiveTaskIds :
       (Len(enqueued) >= k) ~> (tasks[k].st = "settled" /\ tasks[k].calls = 1)
  /\ []~Stalled(lim)

\* All tasks settled, the last of them after waiting for the timer past the
\* end of the load.
C30_Witness ==
  /\ \A k \in LiveTaskIds : tasks[k].st = "settled" /\ tasks[k].calls = 1
  /\ ~Loading
  /\ lim.nextAvailableTime > Ms(StartMs) + LoadTicks * TickStep + Ms(1000)

\* ------------------------------------------------------------ running
\* The tasks whose fn was called and whose promise is not settled.  The
\* outcome "error" of a task is the rejection of the chain of line 168, which
\* a rejected promise and a synchronous throw of fn both give.
RunningTasks == { k \in TaskIds : tasks[k].st = "running" }
SettledTasks == { k \in TaskIds : tasks[k].st = "settled" }

\* C31: running is never negative and equals the number of admitted tasks
\* not yet settled: every admitted task has taken it down once when it
\* settled, resolved or rejected.
C31_RunningCountsUnsettled ==
  /\ lim.running >= 0
  /\ lim.running = Cardinality(RunningTasks)
  /\ lim.running = Len(started) - Cardinality(SettledTasks)
  /\ \A k \in SettledTasks : tasks[k].settles = 1

\* Three tasks were admitted, one resolved, one rejected, one still runs.
C31_Witness ==
  /\ Len(started) = 3
  /\ \E k \in TaskIds : tasks[k].settledAs = "resolved"
  /\ \E k \in TaskIds : tasks[k].settledAs = "rejected"
  /\ lim.running = 1

\* ------------------------------------------------- attempts and slots
\* An attempt of the call is in progress: fetchImpl was called inside run and
\* run has not returned or thrown yet (the response, with its body, is still
\* being received).
InRun(q) == q.st \in {"fetching", "errbody", "okbody"}
AttemptsOn(key) == { r \in ReqIds : InRun(reqs[r]) /\ routeOf(reqs[r]) = key }
InQueue(e, r) == \E i \in 1 .. Len(e.queue) : e.queue[i] = r

\* C32: every transport call runs inside a task the engine of the route
\* admitted; a retry is submitted through schedule again, at the tail of the
\* queue; a call that waits (sleeping) holds no slot and is not queued; the
\* number of attempts in progress on a route equals running of its engine.
C32_AttemptsHoldSlots ==
  /\ [](\A key \in DOMAIN limiters :
          /\ limiters[key].running = Cardinality(AttemptsOn(key))
          /\ \A r \in ReqIds :
               InQueue(limiters[key], r) <=>
                 reqs[r].st = "queued" /\ routeOf(reqs[r]) = key)
  /\ [](\A r \in ReqIds :
          /\ reqs[r].st # "idle" => routeOf(reqs[r]) \in DOMAIN limiters
          /\ reqs[r].fetches <= reqs[r].attempt + 1)
  /\ [][\A r \in ReqIds :
          LET key == routeOf(reqs'[r])
              e == limiters[key]
              e2 == limiters'[key]
          IN /\ Transmitted(r) =>
                  /\ reqs'[r].st = "fetching"
                  /\ reqs'[r].fetches = reqs'[r].attempt + 1
                  /\ e2.running >= 1
                  /\ \/ reqs[r].st = "queued" /\ Head(e.queue) = r
                     \/ reqs[r].st \in {"idle", "sleeping", "errbody"}
             /\ reqs[r].st \in {"idle", "sleeping", "errbody"}
                  /\ reqs'[r].st = "queued" =>
                  e2.queue[Len(e2.queue)] = r]_vars

\* A retry waits in the queue, behind nothing but at its tail, while the
\* attempt of another call holds the slot.
C32_Witness ==
  \E r, p \in ReqIds :
    /\ reqs[r].attempt = 1
    /\ reqs[r].st = "queued"
    /\ reqs[p].st = "fetching"
    /\ limiters[routeOf(reqs[r])].running = 1

\* ------------------------------------------------- penalties and starts
\* The engine with its penalties and its admissions recorded in penalized.
\* The waits are whole milliseconds, so that Math.floor changes nothing.
PenaltyTaskIds == {1, 2}
PenaltyWaits == { Finite(Ms(500)), Finite(Ms(1000)) }
PenaltyHeaderSet == { Hdr(Num(3), Num(Ms(1000)), Missing) }

\* r is the result of the pump that ends the step.
RecordAdmission(r) ==
  penalized' =
    [penalized EXCEPT !.early = @ \/ (r.started # <<>> /\ now < penalized.until)]

PenaltySchedule ==
  /\ Len(enqueued) + 1 \in PenaltyTaskIds
  /\ LET k == Len(enqueued) + 1
         r == schedule(lim, k, now)
     IN /\ lim' = r.lim
        /\ tasks' = afterPump([tasks EXCEPT ![k].st = "queued"], r)
        /\ enqueued' = Append(enqueued, k)
        /\ started' = started \o r.started
        /\ RecordAdmission(r)
  /\ UNCHANGED <<now, limiters, etagCache, reqs, routed, lastStart, budget>>

PenaltyComplete(k) ==
  /\ tasks[k].st = "running"
  /\ LET r == complete(lim, now)
     IN /\ lim' = r.lim
        /\ tasks' = afterPump([tasks EXCEPT ![k] = settleWith(@, "ok")], r)
        /\ started' = started \o r.started
        /\ RecordAdmission(r)
  /\ UNCHANGED <<now, enqueued, limiters, etagCache, reqs, routed, lastStart, budget>>

PenaltyTimerFire ==
  /\ lim.timer
  /\ now >= lim.timerDueTime
  /\ LET r == timerFired(lim, now)
     IN /\ lim' = r.lim
        /\ tasks' = afterPump(tasks, r)
        /\ started' = started \o r.started
        /\ RecordAdmission(r)
  /\ UNCHANGED <<now, enqueued, limiters, etagCache, reqs, routed, lastStart, budget>>

PenaltyUpdateFromHeaders(h) ==
  /\ LET r == updateFromHeaders(lim, h, now)
     IN /\ lim' = r.lim
        /\ tasks' = afterPump(tasks, r)
        /\ started' = started \o r.started
        /\ RecordAdmission(r)
  /\ UNCHANGED <<now, enqueued, limiters, etagCache, reqs, routed, lastStart, budget>>

PenaltyPenalize(w) ==
  /\ lim' = penalize(lim, w, now)
  /\ penalized' = [penalized EXCEPT !.until = Max(@, now + w.n)]
  /\ UNCHANGED <<now, tasks, enqueued, started, limiters, etagCache, reqs,
                 routed, lastStart, budget>>

NextPenalty ==
  \/ PenaltySchedule
  \/ \E k \in PenaltyTaskIds : PenaltyComplete(k)
  \/ PenaltyTimerFire
  \/ \E h \in PenaltyHeaderSet : PenaltyUpdateFromHeaders(h)
  \/ \E w \in PenaltyWaits : PenaltyPenalize(w)
  \/ Tick

SpecPenalty == Init /\ [][NextPenalty]_vars

\* C33: after penalize(waitMs) at time t no task of the engine is admitted
\* before t + waitMs.
C33_NoStartBeforePenaltyEnds == ~penalized.early

RelativeValue(s) ==
  /\ s <= Ms(1000) * ((now \div Ms(1000)) + SlackSeconds)
  /\ s <= Ms(1000) * AbsoluteSeconds

\* The engine after the header update proper, before its closing pump.
Applied(h) == applyHeaders(lim, h, now)

\* C35 (as stated): after updateFromHeaders at time now with a finite reset
\* value s >= 0 the stored windowResetAt is not before now.
C35_ResetNotInPast ==
  \A h \in HeaderInputs :
    num(h.reset).def => Once(h).windowResetAt >= now

\* C35 (amended): updateFromHeaders at time now with a finite reset value
\* s >= 0 stores now + s * 1000, which is not before now, when s is at or
\* below the relative threshold, and the absolute timestamp s * 1000 when s
\* is larger, be it before now or not; when the instant stored is not after
\* now and a task is queued, the closing pump of the call clears it.
C35_ResetInstantStored ==
  \A h \in HeaderInputs :
    num(h.reset).def =>
      LET s == Max(0, num(h.reset).n)
          at == Applied(h).windowResetAt
      IN /\ RelativeValue(s) => at = now + s /\ at >= now
         /\ ~RelativeValue(s) => at = s
         /\ Once(h).windowResetAt =
              IF at <= now /\ Len(lim.queue) > 0 THEN 0 ELSE at

\* The engine holds the absolute timestamp of a header, which is before the
\* clock, and no task is queued.
C35_Witness ==
  /\ lim.windowResetAt = Ms((AbsoluteSeconds + 1) * 1000)
  /\ lim.windowResetAt < now
  /\ Len(lim.queue) = 0
  /\ lim.running > 0

\* ---------------------------------------------- the budget of a window
\* The engine with its last header update and the admissions since recorded
\* in budget.  No header update is made between one that opened a budget and
\* the reset of its window.
BudgetTaskIds == {1, 2, 3}
BudgetHeaderSet ==
  { Hdr(Num(0), Num(Ms(1000)), Missing),
    Hdr(Num(1), Num(Ms(1000)), Missing),
    Hdr(Num(2), Num(Ms(1000)), Missing) }

\* r is the result of the pump that ends the step.
RecordBudget(r) ==
  budget' =
    IF budget.open /\ now < budget.resetAt /\ r.started # <<>>
    THEN [budget EXCEPT !.starts = @ + 1]
    ELSE budget

BudgetSchedule ==
  /\ Len(enqueued) + 1 \in BudgetTaskIds
  /\ LET k == Len(enqueued) + 1
         r == schedule(lim, k, now)
     IN /\ lim' = r.lim
        /\ tasks' = afterPump([tasks EXCEPT ![k].st = "queued"], r)
        /\ enqueued' = Append(enqueued, k)
        /\ started' = started \o r.started
        /\ RecordBudget(r)
  /\ UNCHANGED <<now, limiters, etagCache, reqs, routed, lastStart, penalized>>

BudgetComplete(k) ==
  /\ tasks[k].st = "running"
  /\ LET r == complete(lim, now)
     IN /\ lim' = r.lim
        /\ tasks' = afterPump([tasks EXCEPT ![k] = settleWith(@, "ok")], r)
        /\ started' = started \o r.started
        /\ RecordBudget(r)
  /\ UNCHANGED <<now, enqueued, limiters, etagCache, reqs, routed, lastStart,
                 penalized>>

BudgetTimerFire ==
  /\ lim.timer
  /\ now >= lim.timerDueTime
  /\ LET r == timerFired(lim, now)
     IN /\ lim' = r.lim
        /\ tasks' = afterPump(tasks, r)
        /\ started' = started \o r.started
        /\ RecordBudget(r)
  /\ UNCHANGED <<now, enqueued, limiters, etagCache, reqs, routed, lastStart,
                 penalized>>

BudgetUpdateFromHeaders(h) ==
  /\ ~budget.open \/ now >= budget.resetAt
  /\ LET r == updateFromHeaders(lim, h, now)
         a == applyHeaders(lim, h, now)
         rate == parseRateHeaders(h)
     IN /\ lim' = r.lim
        /\ tasks' = afterPump(tasks, r)
        /\ started' = started \o r.started
        /\ budget' =
             IF rate.remaining.def /\ a.windowResetAt > now
             THEN [open |-> TRUE,
                   remaining |-> Max(0, rate.remaining.n),
                   resetAt |-> a.windowResetAt,
                   starts |-> Len(r.started)]
             ELSE NoBudget
  /\ UNCHANGED <<now, enqueued, limiters, etagCache, reqs, routed, lastStart,
                 penalized>>

NextBudget ==
  \/ BudgetSchedule
  \/ \E k \in BudgetTaskIds : BudgetComplete(k)
  \/ BudgetTimerFire
  \/ \E h \in BudgetHeaderSet : BudgetUpdateFromHeaders(h)
  \/ \E w \in PenaltySet : Penalize(w)
  \/ Tick

SpecBudget == Init /\ [][NextBudget]_vars

\* C36: after updateFromHeaders at time t with remaining r and a window reset
\* known at R > t, and with no header update before R, at most r + 1 tasks are
\* admitted in [t, R).
C36_StartsWithinBudget ==
  budget.open => budget.starts <= budget.remaining + 1

\* The budget of the window is used up, r + 1 tasks were admitted since the
\* header update, and a task waits in the queue for the window's reset.
C36_Witness ==
  /\ budget.open
  /\ budget.remaining = 1
  /\ budget.starts = budget.remaining + 1
  /\ now < budget.resetAt
  /\ Len(lim.queue) > 0
  /\ lim.running < lim.currentConcurrency

====
